---------------------------- MODULE Spec2Model ----------------------------
(***************************************************************************)
(* HD Cinema Bot: a state-machine model of the Telegram file bot.          *)
(*                                                                         *)
(* The bot is a set of asyncio handlers on one event loop.  A handler runs *)
(* without interruption up to its next network await (a Telegram API       *)
(* call or asyncio.sleep); the pymongo calls in database/database.py are   *)
(* synchronous, so each database operation, and any run of code between    *)
(* two network awaits, is one atomic step.  Every action below is one such *)
(* run of a handler.  Telegram API calls may fail; their outcome is an     *)
(* input of the step that makes the call.  MongoDB itself is taken to      *)
(* work (pymongo's OperationFailure is not modelled).                      *)
(*                                                                         *)
(* Time is counted in seconds inside each expiry timer (it advances while  *)
(* the timer sleeps).                                                      *)
(***************************************************************************)
EXTENDS Integers, Sequences, FiniteSets, TLC

(***************************************************************************)
(* Bounds of the model.                                                    *)
(***************************************************************************)
\* user ids 1..NumUsers
NumUsers == 2
\* deep-link requests (/start with a payload) accepted in one behaviour
MaxRequests == 1
\* media messages posted to the DB channel in one behaviour
MaxPosts == 2
\* add_file_to_index calls in one behaviour
MaxCalls == 3
\* distinct files (file_unique_id 1..NumFiles) that are posted
NumFiles == 2
\* groups the bot is added to (group ids 1..NumGroups)
NumGroups == 2
\* 'Request File Again' callback queries sent in one behaviour
MaxCallbacks == 2
\* the configured AUTO_DELETE_TIME, in seconds (config.py reads it from the
\* environment; any positive value is a valid configuration)
AUTO_DELETE_TIME == 10
\* the configured SESSION_TIMEOUT, in ticks of the workspace clock
SESSION_TIMEOUT == 1
\* the workspace clock stops at MaxClock
MaxClock == 3
\* videos sent to the workspace in one behaviour (their message ids 1..MaxVideos)
MaxVideos == 2
\* run_process_and_notify tasks in flight at a time
MaxJobs == 1

\* the largest DB-channel message id of a generated link
MaxMsgId == 4

\* the longest string given to encode
MaxLen == 3

\* files the admins send to general_file_handler
MaxUploads == 2

\* the ids of one client.get_messages request (200 in helper_func)
BatchSize == 2

\* FloodWait answers to one get_messages call
MaxFloods == 2

\* documents of the file index that the searches rank
MaxDocs == 3

\* file names 1..NumNames of the indexed documents (0: no file name)
NumNames == 2

\* result messages the bot sends in one behaviour
MaxSearches == 2

\* the results on one page (5 in search.py)
RESULTS_PER_PAGE == 1

\* the age, in ticks of the clock, at which a cache entry stops being used
\* (3600 seconds in search.py)
CACHE_TIME == 2

\* the limit of search_files in start_command (50 in start.py)
START_LIMIT == 2

\* the limit of search_files in universal_search_handler (100 in search.py)
SEARCH_LIMIT == 4

(***************************************************************************)
(* Configuration (config.py).                                              *)
(***************************************************************************)
OWNER_ID == 1

\* an admin named in the ADMINS environment variable
OTHER_ADMIN == 0

ADMINS == {OTHER_ADMIN, OWNER_ID}

Users == 1..NumUsers

\* what client.get_chat_member can answer or raise
MemberLookups ==
    {"OWNER", "ADMINISTRATOR", "MEMBER", "LEFT", "UserNotParticipant", "Exception"}

\* what a copy of a message to a user can answer or raise
CopyOutcomes ==
    {"ok", "FloodWait", "UserIsBlocked", "InputUserDeactivated", "Exception"}

\* outcomes of a Telegram call of which only success or failure matters
CallOutcomes == {"ok", "raise"}

\* the decoded deep-link payloads a /start carries: no payload, one file, a batch
\* (a batch payload << f, ..., l >> is handled the same way, one file after another)
Payloads == {<< >>, <<1>>}

VARIABLES
    FORCE_SUB_CHANNEL,  \* helper_func's binding of the config value (0 = off)
    user_data,          \* the 'users' collection: user id -> [banned]
    analytics_data,     \* the 'analytics' collection, in insertion order
    start,              \* per user: the start_command handler in flight
    bc,                 \* the broadcast in flight (broadcast_command / handle_broadcast)
    sent,               \* the file copies sent to users' private chats, in order
    timers,             \* copy index -> its handle_file_expiry task and timer message
    rq,                 \* the rerequest_callback_handler runs, in order of arrival
    nstart, nrq         \* deep-link requests and callbacks so far (the bounds)

serveVars == <<FORCE_SUB_CHANNEL, user_data, analytics_data, start, bc, sent, timers, rq,
               nstart, nrq>>

VARIABLES
    channel,            \* the DB channel: message id -> file_unique_id of its media
    file_index,         \* the 'file_index' collection: documents [_id, file_unique_id]
    calls               \* the add_file_to_index calls, in order of arrival

indexVars == <<channel, file_index, calls>>

VARIABLES
    approved_groups,    \* the 'groups' collection: group id -> [name]
    bot_status,         \* per group: the bot's membership status
    buttons,            \* the grp_ buttons under the bot's messages to the owner
    update              \* the update handled last by a group handler: [kind, actor]

groupVars == <<approved_groups, bot_status, buttons, update>>

VARIABLES
    CONVERSATION_STATE, \* linker.CONVERSATION_STATE: admin -> state ("none": no entry)
    WORKSPACE_SESSIONS, \* admin -> [msg_id, file_path, last_active]
    temp_files,         \* the video files in TEMP_DIR, named by message id
    jobs,               \* the run_process_and_notify tasks in flight
    now,                \* time.time()
    nvideo,             \* message ids given to the videos sent so far
    closed              \* the videos whose session 'Close Session' has closed

workVars == <<CONVERSATION_STATE, WORKSPACE_SESSIONS, temp_files, jobs, now, nvideo,
              closed>>

VARIABLES
    lk                  \* a deep link from its generation to the /start that opens it

linkVars == <<lk>>

VARIABLES
    BULK_SESSIONS,      \* linker.BULK_SESSIONS: admin -> [open, ids, unique_ids]
    uploads,            \* the general_file_handler runs in flight
    reply_link,         \* the link in the bot's last reply to an admin
    nupload             \* files sent to general_file_handler so far (the bound)

linkerVars == <<BULK_SESSIONS, uploads, reply_link, nupload>>

VARIABLES
    gm                  \* a helper_func.get_messages call: its arguments and locals

fetchVars == <<gm>>

VARIABLES
    ranked,               \* the file_index documents [_id, file_name], by text score
    SEARCH_RESULTS_CACHE, \* search.SEARCH_RESULTS_CACHE[query_hash] of the query
    rmsgs                 \* the result messages in the users' private chats

searchVars == <<ranked, SEARCH_RESULTS_CACHE, rmsgs>>

VARIABLES
    boot                  \* Bot.start: [started, config (the attribute
                          \* FORCE_SUB_CHANNEL of module config), invitelink]

bootVars == <<boot>>

restVars == <<indexVars, groupVars, workVars, linkVars, linkerVars, fetchVars, searchVars, bootVars>>

serveRest == <<indexVars, groupVars, workVars, linkVars, linkerVars, fetchVars, searchVars, bootVars>>

indexRest == <<serveVars, groupVars, workVars, linkVars, linkerVars, fetchVars, searchVars, bootVars>>

groupRest == <<serveVars, indexVars, workVars, linkVars, linkerVars, fetchVars, searchVars, bootVars>>

workRest == <<serveVars, indexVars, groupVars, linkVars, linkerVars, fetchVars, searchVars, bootVars>>

linkRest == <<serveVars, indexVars, groupVars, workVars, linkerVars, fetchVars, searchVars, bootVars>>

fetchRest == <<serveVars, indexVars, groupVars, workVars, linkVars, linkerVars, searchVars, bootVars>>

\* what the linker handlers leave alone apart from the index and the workspace
linkerRest == <<serveVars, groupVars, linkVars, fetchVars, searchVars, bootVars>>

searchRest == <<serveVars, indexVars, groupVars, workVars, linkVars, linkerVars, fetchVars,
                bootVars>>

bootRest == <<serveVars, indexVars, groupVars, workVars, linkVars, linkerVars, fetchVars,
              searchVars>>

vars == <<serveVars, restVars>>

(***************************************************************************)
(* database/database.py: the users collection.                             *)
(***************************************************************************)
\* update_one with upsert: set field banned of record u, creating the record
Upsert(ud, u, b) ==
    [x \in DOMAIN ud \cup {u} |-> IF x = u THEN [banned |-> b] ELSE ud[x]]

\* faulty variant: add_user that inserts nothing
add_user_noop(ud, u) == ud

add_user(ud, u) == Upsert(ud, u, FALSE)

\* find_one: the record, or None (found = FALSE)
get_user(ud, u) ==
    IF u \in DOMAIN ud THEN [found |-> TRUE, banned |-> ud[u].banned]
    ELSE [found |-> FALSE, banned |-> FALSE]

get_all_user_ids(ud) == {u \in DOMAIN ud : ud[u].banned # TRUE}

delete_user(ud, u) == [x \in DOMAIN ud \ {u} |-> ud[x]]

\* faulty variant: a ban that removes the record instead of flagging it
ban_user_deletes(ud, u) == delete_user(ud, u)

ban_user(ud, u) == Upsert(ud, u, TRUE)

unban_user(ud, u) == Upsert(ud, u, FALSE)

(***************************************************************************)
(* helper_func.is_subscribed, given the answer of get_chat_member.         *)
(***************************************************************************)
NeedsMemberLookup(fsc, u) == fsc # 0 /\ u \notin ADMINS

\* faulty variant: a lookup that raises counts as subscribed
is_subscribed_lenient(fsc, u, lookup) ==
    IF fsc = 0 THEN TRUE
    ELSE IF u \in ADMINS THEN TRUE
    ELSE lookup \in {"OWNER", "ADMINISTRATOR", "MEMBER", "Exception"}

is_subscribed(fsc, u, lookup) ==
    IF fsc = 0 THEN TRUE
    ELSE IF u \in ADMINS THEN TRUE
    ELSE lookup \in {"OWNER", "ADMINISTRATOR", "MEMBER"}


(***************************************************************************)
(* helper_func.encode / decode and the deep-link payloads.  A string is the *)
(* sequence of its ASCII codes; '=' is 61 and '-' is 45.                   *)
(***************************************************************************)
\* the character of the URL-safe base64 alphabet for the 6-bit value v
B64Char(v) ==
    IF v < 26 THEN 65 + v
    ELSE IF v < 52 THEN 97 + (v - 26)
    ELSE IF v < 62 THEN 48 + (v - 52)
    ELSE IF v = 62 THEN 45 ELSE 95

\* the 6-bit value of a character of the alphabet, -1 for any other character
B64Value(ch) ==
    IF ch >= 65 /\ ch <= 90 THEN ch - 65
    ELSE IF ch >= 97 /\ ch <= 122 THEN ch - 97 + 26
    ELSE IF ch >= 48 /\ ch <= 57 THEN ch - 48 + 52
    ELSE IF ch = 45 THEN 62
    ELSE IF ch = 95 THEN 63 ELSE -1

\* base64.urlsafe_b64encode: three bytes become four characters, a last
\* group of one or two bytes is padded with '='
RECURSIVE urlsafe_b64encode(_)
urlsafe_b64encode(b) ==
    IF b = << >> THEN << >>
    ELSE LET n  == Len(b)
             b2 == IF n >= 2 THEN b[2] ELSE 0
             b3 == IF n >= 3 THEN b[3] ELSE 0
             v  == b[1] * 65536 + b2 * 256 + b3
             q  == << B64Char(v \div 262144),
                      B64Char((v \div 4096) % 64),
                      IF n >= 2 THEN B64Char((v \div 64) % 64) ELSE 61,
                      IF n >= 3 THEN B64Char(v % 64) ELSE 61 >>
         IN  IF n > 3 THEN q \o urlsafe_b64encode(SubSeq(b, 4, n)) ELSE q

\* str.strip(ch)
RECURSIVE strip(_, _)
strip(s, ch) ==
    IF s = << >> THEN s
    ELSE IF s[1] = ch THEN strip(Tail(s), ch)
    ELSE IF s[Len(s)] = ch THEN strip(SubSeq(s, 1, Len(s) - 1), ch)
    ELSE s

\* what a call that raised leaves in place of its value
Raised == << -1 >>

\* base64.urlsafe_b64decode of a padded string: four characters become three
\* bytes, a last group ending in '=' or '==' two bytes or one; binascii.Error
\* for a length that is no multiple of four and for a misplaced character
\* (the library skips characters outside the alphabet, which encode never
\* produces)
RECURSIVE urlsafe_b64decode(_)
urlsafe_b64decode(t) ==
    IF t = << >> THEN << >>
    ELSE IF Len(t) < 4 THEN Raised
    ELSE LET v1   == B64Value(t[1])
             v2   == B64Value(t[2])
             v3   == B64Value(t[3])
             v4   == B64Value(t[4])
             last == Len(t) = 4
             rest == urlsafe_b64decode(SubSeq(t, 5, Len(t)))
             v    == v1 * 262144 + v2 * 4096
                       + (IF v3 >= 0 THEN v3 ELSE 0) * 64 + (IF v4 >= 0 THEN v4 ELSE 0)
             all  == << v \div 65536, (v \div 256) % 256, v % 256 >>
         IN  IF v1 < 0 \/ v2 < 0 \/ rest = Raised THEN Raised
             ELSE IF v3 >= 0 /\ v4 >= 0 THEN all \o rest
             ELSE IF last /\ v3 >= 0 /\ t[4] = 61 THEN SubSeq(all, 1, 2)
             ELSE IF last /\ t[3] = 61 /\ t[4] = 61 THEN SubSeq(all, 1, 1)
             ELSE Raised

\* faulty variant: an encode that keeps the padding and drops the last character
encode_truncating(string) ==
    LET e == urlsafe_b64encode(string) IN
    IF e = << >> THEN e ELSE SubSeq(e, 1, Len(e) - 1)

\* helper_func.encode
encode(string) == strip(urlsafe_b64encode(string), 61)

\* helper_func.decode
decode(base64_string) ==
    LET stripped == strip(base64_string, 61)
        padding  == [i \in 1..((4 - (Len(stripped) % 4)) % 4) |-> 61]
    IN  urlsafe_b64decode(stripped \o padding)

\* str(n) for n >= 0
RECURSIVE str(_)
str(n) == IF n < 10 THEN << 48 + n >> ELSE str(n \div 10) \o << 48 + (n % 10) >>

\* int(s) of a string of decimal digits; -1 stands for ValueError
RECURSIVE int(_)
int(s) ==
    IF s = << >> \/ \E i \in DOMAIN s : s[i] < 48 \/ s[i] > 57 THEN -1
    ELSE IF Len(s) = 1 THEN s[1] - 48
    ELSE int(SubSeq(s, 1, Len(s) - 1)) * 10 + (s[Len(s)] - 48)

\* str.split(sep)
RECURSIVE split(_, _)
split(s, sep) ==
    IF \A i \in DOMAIN s : s[i] # sep THEN << s >>
    ELSE LET i == CHOOSE j \in DOMAIN s : s[j] = sep /\ \A x \in 1..(j - 1) : s[x] # sep
         IN  << SubSeq(s, 1, i - 1) >> \o split(SubSeq(s, i + 1, Len(s)), sep)

abs(c) == IF c < 0 THEN -c ELSE c

\* "get-"
Get == << 103, 101, 116, 45 >>

\* f"get-{post_message.id * abs(client.db_channel.id)}", encoded
single_link(msg_id, c) == encode(Get \o str(msg_id * abs(c)))

\* f"get-{first_msg_id * abs(c)}-{last_msg_id * abs(c)}", encoded
batch_link(first_msg_id, last_msg_id, c) ==
    encode(Get \o str(first_msg_id * abs(c)) \o << 45 >> \o str(last_msg_id * abs(c)))

\* range(first, last + 1) as a list
range(first, last) == [i \in 1..(last - first + 1) |-> first + i - 1]

\* start_command's handling of a file or batch payload for DB channel c: the
\* ids handed to process_file_request, the welcome menu, or the reply that
\* the link is invalid (any exception).  int(int(x) / abs(c)) is Python's
\* true division of integers, exact for a quotient below 2^53, truncated
deep_link_ids(payload, c) ==
    LET string == decode(payload)
        args   == split(string, 45)
    IN  IF string = Raised \/ \E i \in DOMAIN string : string[i] > 127
        THEN [reply |-> "invalid", ids |-> << >>]
        ELSE IF Len(args) = 3
        THEN IF int(args[2]) < 0 \/ int(args[3]) < 0
             THEN [reply |-> "invalid", ids |-> << >>]
             ELSE [reply |-> "files",
                   ids |-> range(int(args[2]) \div abs(c), int(args[3]) \div abs(c))]
        ELSE IF Len(args) = 2
        THEN IF int(args[2]) < 0
             THEN [reply |-> "invalid", ids |-> << >>]
             ELSE [reply |-> "files", ids |-> << int(args[2]) \div abs(c) >>]
        ELSE [reply |-> "welcome", ids |-> << >>]

\* no link under way
NoLink ==
    [pc |-> "none", kind |-> "none", first |-> 0, last |-> 0, c |-> 0,
     string |-> << >>, payload |-> << >>, reply |-> "none", ids |-> << >>,
     decoded |-> << >>]

\* a link for DB-channel message msg_id is generated
SingleLink(msg_id, c) ==
    /\ lk.pc = "none"
    /\ lk' = [NoLink EXCEPT !.pc = "linked", !.kind = "single", !.first = msg_id,
                            !.last = msg_id, !.c = c,
                            !.payload = single_link(msg_id, c)]
    /\ UNCHANGED <<serveVars, linkRest>>

\* a link for the DB-channel messages f..l is generated
BatchLink(f, l, c) ==
    /\ lk.pc = "none"
    /\ f <= l
    /\ lk' = [NoLink EXCEPT !.pc = "linked", !.kind = "batch", !.first = f,
                            !.last = l, !.c = c, !.payload = batch_link(f, l, c)]
    /\ UNCHANGED <<serveVars, linkRest>>

\* a user opens the link: start_command decodes the payload
OpenLink ==
    /\ lk.pc = "linked"
    /\ lk.kind \in {"single", "batch"}
    /\ LET d == deep_link_ids(lk.payload, lk.c) IN
       lk' = [lk EXCEPT !.pc = "opened", !.reply = d.reply, !.ids = d.ids]
    /\ UNCHANGED <<serveVars, linkRest>>

\* encode(s) for a string s
EncodeString(s) ==
    /\ lk.pc = "none"
    /\ lk' = [NoLink EXCEPT !.pc = "linked", !.kind = "string", !.string = s,
                            !.payload = encode(s)]
    /\ UNCHANGED <<serveVars, linkRest>>

\* decode of the encoded string
DecodeString ==
    /\ lk.pc = "linked"
    /\ lk.kind = "string"
    /\ lk' = [lk EXCEPT !.pc = "opened", !.decoded = decode(lk.payload)]
    /\ UNCHANGED <<serveVars, linkRest>>

(***************************************************************************)
(* helper_func.get_messages.  A message is named by its id; BatchSize      *)
(* stands for the 200 ids of one request.                                  *)
(***************************************************************************)
\* no call yet; good holds the offsets of the batches that were answered
NoCall ==
    [pc |-> "idle", message_ids |-> << >>, total_messages |-> 0, messages |-> << >>,
     floods |-> 0, good |-> {}]

\* faulty variant: a slice that starts one id early
batch_ids_overlapping(message_ids, total_messages) ==
    SubSeq(message_ids, IF total_messages = 0 THEN 1 ELSE total_messages,
           IF total_messages + BatchSize < Len(message_ids)
           THEN total_messages + BatchSize ELSE Len(message_ids))

\* message_ids[total_messages : total_messages + 200]
batch_ids(message_ids, total_messages) ==
    SubSeq(message_ids, total_messages + 1,
           IF total_messages + BatchSize < Len(message_ids)
           THEN total_messages + BatchSize ELSE Len(message_ids))

\* get_messages(client, message_ids) is called
GetMessages(message_ids) ==
    /\ gm.pc = "idle"
    /\ gm' = [NoCall EXCEPT !.pc = "loop", !.message_ids = message_ids]
    /\ UNCHANGED fetchRest

\* one round of the while loop: client.get_messages answers or raises
GmRequest(outcome) ==
    /\ gm.pc = "loop"
    /\ gm.total_messages # Len(gm.message_ids)
    /\ LET batch == batch_ids(gm.message_ids, gm.total_messages) IN
       CASE outcome = "ok" ->
              gm' = [gm EXCEPT !.messages = @ \o batch,
                               !.good = @ \cup {gm.total_messages},
                               !.total_messages = @ + Len(batch)]
         [] outcome = "FloodWait" ->
              \* sleep, continue: the same batch again
              /\ gm.floods < MaxFloods
              /\ gm' = [gm EXCEPT !.floods = @ + 1]
         [] OTHER ->
              gm' = [gm EXCEPT !.total_messages = @ + Len(batch)]
    /\ UNCHANGED fetchRest

\* the loop condition fails: return messages
GmReturn ==
    /\ gm.pc = "loop"
    /\ gm.total_messages = Len(gm.message_ids)
    /\ gm' = [gm EXCEPT !.pc = "returned"]
    /\ UNCHANGED fetchRest

(***************************************************************************)
(* plugins/start.py: start_command.                                        *)
(***************************************************************************)
\* no handler in flight; last is the reply that ended the user's last /start
IdleStart ==
    [pc |-> "idle", found |-> FALSE, ids |-> << >>, msgs |-> << >>,
     sent_message |-> 0, last |-> "none"]

\* steps 3-5 of start_command: register a new user, then route the payload
StartPass(u, found, ids) ==
    /\ user_data' = IF found THEN user_data ELSE add_user(user_data, u)
    /\ start' = [start EXCEPT ![u] =
                    IF ids = << >> THEN [IdleStart EXCEPT !.last = "welcome"]
                    ELSE [IdleStart EXCEPT !.pc = "process", !.ids = ids]]

\* a /start arrives: the handler runs up to its first network await
StartCommand(u, ids) ==
    /\ start[u].pc = "idle"
    /\ ids # << >> => nstart < MaxRequests
    /\ nstart' = IF ids # << >> THEN nstart + 1 ELSE nstart
    /\ LET db_user == get_user(user_data, u) IN
         IF db_user.found /\ db_user.banned
         THEN /\ start' = [start EXCEPT ![u] =
                             [IdleStart EXCEPT !.last = "denied"]]
              /\ UNCHANGED user_data
         ELSE IF NeedsMemberLookup(FORCE_SUB_CHANNEL, u)
         THEN /\ start' = [start EXCEPT ![u] =
                             [IdleStart EXCEPT !.pc = "get_chat_member",
                                               !.found = db_user.found, !.ids = ids]]
              /\ UNCHANGED user_data
         ELSE StartPass(u, db_user.found, ids)
    /\ UNCHANGED <<FORCE_SUB_CHANNEL, analytics_data, bc, sent, timers, rq, nrq>>
    /\ UNCHANGED serveRest

\* get_chat_member answers: force_sub_handler, or steps 3-5
StartMember(u, lookup) ==
    /\ start[u].pc = "get_chat_member"
    /\ IF is_subscribed(FORCE_SUB_CHANNEL, u, lookup)
       THEN StartPass(u, start[u].found, start[u].ids)
       ELSE /\ start' = [start EXCEPT ![u] = [IdleStart EXCEPT !.last = "join_prompt"]]
            /\ UNCHANGED user_data
    /\ UNCHANGED <<FORCE_SUB_CHANNEL, analytics_data, bc, sent, timers, rq, nrq,
                   nstart>>
    /\ UNCHANGED serveRest

(***************************************************************************)
(* plugins/start.py: process_file_request.                                 *)
(***************************************************************************)
\* a copy of DB-channel message f in u's private chat
Copy(u, f, via, origin) ==
    [to |-> u, file |-> f, present |-> TRUE, via |-> via, origin |-> origin]

\* a handle_file_expiry task with its timer message
NewTimer(is_rerequest) ==
    [pc |-> "loop", elapsed |-> 0, is_rerequest |-> is_rerequest,
     notice |-> "countdown", link_valid |-> TRUE]

AddTimer(tm, i, is_rerequest) ==
    [x \in DOMAIN tm \cup {i} |-> IF x = i THEN NewTimer(is_rerequest) ELSE tm[x]]

\* faulty variant: a log that keeps only the latest download
log_file_download_latest(ad, file_id, user_id) ==
    << [file_id |-> file_id, user_id |-> user_id, timestamp |-> now] >>

\* analytics_data.insert_one({file_id, user_id, timestamp})
log_file_download(ad, file_id, user_id) ==
    Append(ad, [file_id |-> file_id, user_id |-> user_id, timestamp |-> now])

\* process_file_request returns
PfrReturn(h) == [IdleStart EXCEPT !.last = "served"]

\* the for loop moves to its next message, or the handler returns
PfrNext(h) ==
    IF Len(h.msgs) > 1
    THEN [h EXCEPT !.msgs = Tail(h.msgs), !.pc = "copy"]
    ELSE PfrReturn(h)

\* an exception leaves process_file_request: start_command's except replies
PfrError(h) == [PfrReturn(h) EXCEPT !.last = "link_error"]

\* 'Please wait' reply, helper_func.get_messages, temp_msg.delete
PfrFetch(u, outcome) ==
    /\ start[u].pc = "process"
    /\ start' = [start EXCEPT ![u] =
         CASE outcome = "ok" -> [@ EXCEPT !.msgs = start[u].ids, !.pc = "copy"]
           [] outcome = "empty" -> PfrReturn(@)
           [] OTHER -> [IdleStart EXCEPT !.last = "fetch_error"]]
    /\ UNCHANGED <<FORCE_SUB_CHANNEL, user_data, analytics_data, bc, sent, timers, rq,
                   nstart, nrq>>
    /\ UNCHANGED serveRest

\* one iteration of the loop up to the answer of msg.copy
PfrCopy(u, outcome) ==
    /\ start[u].pc = "copy"
    /\ LET h == start[u]
           msg == Head(h.msgs) IN
       /\ analytics_data' = log_file_download(analytics_data, msg, u)
       /\ sent' = IF outcome = "ok" THEN Append(sent, Copy(u, msg, "deep_link", 0))
                  ELSE sent
       /\ start' = [start EXCEPT ![u] =
            CASE outcome = "ok" ->
                   IF AUTO_DELETE_TIME > 0
                   THEN [h EXCEPT !.sent_message = Len(sent) + 1, !.pc = "reply"]
                   ELSE PfrNext([h EXCEPT !.sent_message = Len(sent) + 1])
              [] outcome = "FloodWait" -> [h EXCEPT !.pc = "retry"]
              [] outcome \in {"UserIsBlocked", "InputUserDeactivated"} ->
                   PfrReturn(h)
              [] OTHER -> PfrNext(h)]
    /\ UNCHANGED <<FORCE_SUB_CHANNEL, user_data, bc, timers, rq, nstart, nrq>>
    /\ UNCHANGED serveRest

\* the expiry notice under the sent file, then create_task(handle_file_expiry)
PfrReply(u, outcome) ==
    /\ start[u].pc = "reply"
    /\ LET h == start[u] IN
       /\ timers' = IF outcome = "ok" THEN AddTimer(timers, h.sent_message, FALSE)
                    ELSE timers
       /\ start' = [start EXCEPT ![u] =
            CASE outcome = "ok" -> PfrNext(h)
              [] outcome = "FloodWait" -> [h EXCEPT !.pc = "retry"]
              [] outcome \in {"UserIsBlocked", "InputUserDeactivated"} ->
                   PfrReturn(h)
              [] OTHER -> PfrNext(h)]
    /\ UNCHANGED <<FORCE_SUB_CHANNEL, user_data, analytics_data, bc, sent, rq,
                   nstart, nrq>>
    /\ UNCHANGED serveRest

\* except FloodWait: sleep, then sent_message.copy(chat_id=user_id, ...)
PfrRetry(u, outcome) ==
    /\ start[u].pc = "retry"
    /\ LET h == start[u] IN
       IF h.sent_message = 0
       THEN \* sent_message is unbound: the NameError leaves the handler
            /\ start' = [start EXCEPT ![u] = PfrError(h)]
            /\ UNCHANGED sent
       ELSE IF outcome = "ok"
       THEN /\ sent' = Append(sent, Copy(u, sent[h.sent_message].file, "flood_retry", 0))
            /\ start' = [start EXCEPT ![u] = PfrNext(h)]
       ELSE /\ start' = [start EXCEPT ![u] = PfrError(h)]
            /\ UNCHANGED sent
    /\ UNCHANGED <<FORCE_SUB_CHANNEL, user_data, analytics_data, bc, timers, rq,
                   nstart, nrq>>
    /\ UNCHANGED serveRest

(***************************************************************************)
(* helper_func.handle_file_expiry: the task of copy i.                     *)
(***************************************************************************)
remaining_time(t) == AUTO_DELETE_TIME - t.elapsed

update_interval(t) == IF remaining_time(t) > 60 THEN 15 ELSE 5

\* one pass of the while loop: edit the countdown, then sleep; another error
\* than MessageNotModified breaks out of the loop
AfterEdit(t, outcome) ==
    IF outcome = "Exception" THEN [t EXCEPT !.pc = "delete"]
    ELSE LET slept == [t EXCEPT !.elapsed = t.elapsed + update_interval(t)] IN
         IF slept.elapsed < AUTO_DELETE_TIME THEN slept
         ELSE [slept EXCEPT !.pc = "delete"]

TimerEdit(i, outcome) ==
    /\ i \in DOMAIN timers
    /\ timers[i].pc = "loop"
    /\ timers' = [timers EXCEPT ![i] = AfterEdit(@, outcome)]
    /\ UNCHANGED <<FORCE_SUB_CHANNEL, user_data, analytics_data, start, bc, sent, rq,
                   nstart, nrq>>
    /\ UNCHANGED serveRest

\* file_to_delete.delete()
TimerDelete(i, outcome) ==
    /\ i \in DOMAIN timers
    /\ timers[i].pc = "delete"
    /\ IF outcome = "ok"
       THEN /\ sent' = [sent EXCEPT ![i].present = FALSE]
            /\ timers' = [timers EXCEPT ![i].pc = "notice"]
       ELSE /\ timers' = [timers EXCEPT ![i].pc = "fallback"]
            /\ UNCHANGED sent
    /\ UNCHANGED <<FORCE_SUB_CHANNEL, user_data, analytics_data, start, bc, rq,
                   nstart, nrq>>
    /\ UNCHANGED serveRest

\* the notice that ends the countdown: FINAL_EXPIRED_MSG for a re-sent file,
\* EXPIRED_MSG with the 'Request File Again' button otherwise
ExpiryNotice(is_rerequest) == IF is_rerequest THEN "final" ELSE "button"

TimerNotice(i, outcome) ==
    /\ i \in DOMAIN timers
    /\ timers[i].pc = "notice"
    /\ timers' = [timers EXCEPT ![i] =
         IF outcome = "ok"
         THEN [@ EXCEPT !.pc = "done", !.notice = ExpiryNotice(timers[i].is_rerequest)]
         ELSE [@ EXCEPT !.pc = "fallback"]]
    /\ UNCHANGED <<FORCE_SUB_CHANNEL, user_data, analytics_data, start, bc, sent, rq,
                   nstart, nrq>>
    /\ UNCHANGED serveRest

\* except Exception: timer_message.edit("This file has expired.")
TimerFallback(i, outcome) ==
    /\ i \in DOMAIN timers
    /\ timers[i].pc = "fallback"
    /\ timers' = [timers EXCEPT ![i] =
         IF outcome = "ok" THEN [@ EXCEPT !.pc = "done", !.notice = "fallback"]
         ELSE [@ EXCEPT !.pc = "done"]]
    /\ UNCHANGED <<FORCE_SUB_CHANNEL, user_data, analytics_data, start, bc, sent, rq,
                   nstart, nrq>>
    /\ UNCHANGED serveRest

\* the clock passes the expiry_timestamp written into the button of timer i
LinkExpires(i) ==
    /\ i \in DOMAIN timers
    /\ timers[i].notice = "button"
    /\ timers[i].link_valid
    /\ timers' = [timers EXCEPT ![i].link_valid = FALSE]
    /\ UNCHANGED <<FORCE_SUB_CHANNEL, user_data, analytics_data, start, bc, sent, rq,
                   nstart, nrq>>
    /\ UNCHANGED serveRest

(***************************************************************************)
(* plugins/rerequest.py: rerequest_callback_handler.                       *)
(***************************************************************************)
\* a handler run that has returned leaves the list of runs in flight
Returned(q, k) == [j \in 1..(Len(q) - 1) |-> IF j < k THEN q[j] ELSE q[j + 1]]

\* faulty variant: a handler that never finds the link expired
LinkExpired_never(t) == FALSE

\* time.time() > expiry_timestamp, for the timestamp in the button of timer t
LinkExpired(t) == ~t.link_valid

\* the handler run for a press of the button under timer message i
NewRun(i) ==
    [btn |-> i, user |-> sent[i].to, db_message_id |-> sent[i].file,
     pc |-> "get_messages", new |-> 0]

\* the user presses 'Request File Again' under timer message i: the handler
\* parses the callback data and compares the clock with expiry_timestamp
RqCallback(i, edit) ==
    /\ i \in DOMAIN timers
    /\ timers[i].notice = "button"
    /\ nrq < MaxCallbacks
    /\ nrq' = nrq + 1
    /\ IF LinkExpired(timers[i])
       THEN \* query.message.edit(FINAL_EXPIRED_MSG, reply_markup=None); an
            \* error of the edit leaves the message as it is
            /\ timers' = IF edit = "ok" THEN [timers EXCEPT ![i].notice = "final"]
                         ELSE timers
            /\ UNCHANGED rq
       ELSE /\ edit = "ok"
            /\ rq' = Append(rq, NewRun(i))
            /\ UNCHANGED timers
    /\ UNCHANGED <<FORCE_SUB_CHANNEL, user_data, analytics_data, start, bc, sent,
                   nstart>>
    /\ UNCHANGED serveRest

\* get_messages(client, [db_message_id]) answers
RqFetch(k, outcome) ==
    /\ k \in DOMAIN rq
    /\ rq[k].pc = "get_messages"
    /\ CASE outcome = "ok" ->
              /\ rq' = [rq EXCEPT ![k].pc = "copy"]
              /\ UNCHANGED timers
         [] outcome = "empty" ->
              \* no message: 'File Not Found' replaces a notice that is still there
              /\ rq' = Returned(rq, k)
              /\ timers' = [timers EXCEPT ![rq[k].btn].notice =
                               IF @ = "deleted" THEN @ ELSE "not_found"]
         [] OTHER ->
              \* get_messages raises: the handler only answers the query
              /\ rq' = Returned(rq, k)
              /\ UNCHANGED timers
    /\ UNCHANGED <<FORCE_SUB_CHANNEL, user_data, analytics_data, start, bc, sent,
                   nstart, nrq>>
    /\ UNCHANGED serveRest

\* msg.copy(chat_id=user_id, ...) answers
RqCopy(k, outcome) ==
    /\ k \in DOMAIN rq
    /\ rq[k].pc = "copy"
    /\ IF outcome = "ok"
       THEN /\ sent' = Append(sent, Copy(rq[k].user, rq[k].db_message_id,
                                         "rerequest", rq[k].btn))
            /\ rq' = [rq EXCEPT ![k].pc = "delete", ![k].new = Len(sent) + 1]
       ELSE /\ rq' = Returned(rq, k)
            /\ UNCHANGED sent
    /\ UNCHANGED <<FORCE_SUB_CHANNEL, user_data, analytics_data, start, bc, timers,
                   nstart, nrq>>
    /\ UNCHANGED serveRest

\* query.message.delete(), then the new timer message and its expiry task
RqTimer(k, del, reply) ==
    /\ k \in DOMAIN rq
    /\ rq[k].pc = "delete"
    /\ rq' = Returned(rq, k)
    /\ LET gone == [timers EXCEPT ![rq[k].btn].notice = "deleted"] IN
       timers' = IF del # "ok" THEN timers
                 ELSE IF AUTO_DELETE_TIME > 0 /\ reply = "ok"
                      THEN AddTimer(gone, rq[k].new, TRUE)
                      ELSE gone
    /\ UNCHANGED <<FORCE_SUB_CHANNEL, user_data, analytics_data, start, bc, sent,
                   nstart, nrq>>
    /\ UNCHANGED serveRest

(***************************************************************************)
(* plugins/admin.py: handle_ban_unban, pressed by admin a for user u.      *)
(***************************************************************************)
AdminBan(a, u) ==
    /\ a \in ADMINS
    /\ u # a
    /\ user_data' = ban_user(user_data, u)
    /\ UNCHANGED <<FORCE_SUB_CHANNEL, analytics_data, start, bc, sent, timers, rq,
                   nstart, nrq>>
    /\ UNCHANGED serveRest

AdminUnban(a, u) ==
    /\ a \in ADMINS
    /\ u # a
    /\ user_data' = unban_user(user_data, u)
    /\ UNCHANGED <<FORCE_SUB_CHANNEL, analytics_data, start, bc, sent, timers, rq,
                   nstart, nrq>>
    /\ UNCHANGED serveRest

(***************************************************************************)
(* Broadcasts: start.broadcast_command ("command") and                     *)
(* admin.handle_broadcast ("panel").  With fewer than 20 recipients the    *)
(* progress edit inside the loop (every 100 or 20 recipients) never runs.  *)
(***************************************************************************)
\* no broadcast in flight; status is what the last status message shows
IdleBroadcast ==
    [pc |-> "idle", kind |-> "none", total_users |-> 0, todo |-> {}, user_id |-> 0,
     successful |-> 0, blocked |-> 0, deleted |-> 0, unsuccessful |-> 0,
     status |-> "none"]

\* the admin starts a broadcast: the recipient list is read
BroadcastStart(kind) ==
    /\ bc.pc = "idle"
    /\ LET ids == get_all_user_ids(user_data) IN
       bc' = [IdleBroadcast EXCEPT !.pc = "loop", !.kind = kind,
                                   !.total_users = Cardinality(ids), !.todo = ids,
                                   !.status = "broadcasting"]
    /\ UNCHANGED <<FORCE_SUB_CHANNEL, user_data, analytics_data, start, sent, timers, rq,
                   nstart, nrq>>
    /\ UNCHANGED serveRest

\* the counters after a copy that failed with UserIsBlocked or InputUserDeactivated
CountBlocked(b, error) ==
    IF b.kind = "command" /\ error = "InputUserDeactivated"
    THEN [b EXCEPT !.deleted = @ + 1]
    ELSE [b EXCEPT !.blocked = @ + 1]

\* the users collection after the copy to user_id ended with error
AfterBroadcastError(ud, user_id, error) ==
    IF error \in {"UserIsBlocked", "InputUserDeactivated"}
    THEN delete_user(ud, user_id)
    ELSE ud

\* one iteration of the for loop: the copy to the next recipient answers
BroadcastCopy(user_id, outcome) ==
    /\ bc.pc = "loop"
    /\ user_id \in bc.todo
    /\ user_data' = AfterBroadcastError(user_data, user_id, outcome)
    /\ LET b == bc IN
       bc' = CASE outcome = "ok" ->
                    [b EXCEPT !.successful = @ + 1, !.todo = @ \ {user_id}]
               [] outcome = "FloodWait" -> [b EXCEPT !.pc = "retry", !.user_id = user_id]
               [] outcome \in {"UserIsBlocked", "InputUserDeactivated"} ->
                    [CountBlocked(b, outcome) EXCEPT !.todo = @ \ {user_id}]
               [] OTHER -> [b EXCEPT !.unsuccessful = @ + 1, !.todo = @ \ {user_id}]
    /\ UNCHANGED <<FORCE_SUB_CHANNEL, analytics_data, start, sent, timers, rq,
                   nstart, nrq>>
    /\ UNCHANGED serveRest

\* except FloodWait: sleep, then the copy again; an exception of the second
\* copy leaves the handler
BroadcastRetry(outcome) ==
    /\ bc.pc = "retry"
    /\ bc' = IF outcome = "ok"
             THEN [bc EXCEPT !.pc = "loop", !.successful = @ + 1,
                             !.todo = @ \ {bc.user_id}, !.user_id = 0]
             ELSE [IdleBroadcast EXCEPT !.status = "raised"]
    /\ UNCHANGED <<FORCE_SUB_CHANNEL, user_data, analytics_data, start, sent, timers, rq,
                   nstart, nrq>>
    /\ UNCHANGED serveRest

\* the loop is over: the status message is edited to 'Broadcast Completed'
BroadcastDone ==
    /\ bc.pc = "loop"
    /\ bc.todo = {}
    /\ bc' = [IdleBroadcast EXCEPT !.status = "completed"]
    /\ UNCHANGED <<FORCE_SUB_CHANNEL, user_data, analytics_data, start, sent, timers, rq,
                   nstart, nrq>>
    /\ UNCHANGED serveRest

(***************************************************************************)
(* database/database.py: the file index.  MongoDB is shared by every       *)
(* process that runs the bot, so the find and the insert of one            *)
(* add_file_to_index call are separate steps that other calls interleave.  *)
(***************************************************************************)
FileUniqueIds == 1..NumFiles

find_file_by_unique_id(idx, fuid) == {d \in idx : d.file_unique_id = fuid}

\* faulty variant: the collection without its unique index on file_unique_id
DuplicateKey_id_only(idx, doc) == \E d \in idx : d._id = doc._id

\* insert_one raises DuplicateKeyError: _id is the primary key, and
\* file_unique_id_index is a unique index
DuplicateKey(idx, doc) ==
    \E d \in idx : d._id = doc._id \/ d.file_unique_id = doc.file_unique_id

insert_one(idx, doc) == IF DuplicateKey(idx, doc) THEN idx ELSE idx \cup {doc}

\* a media message is posted to the DB channel (by an admin, or copied there
\* by general_file_handler); message ids count up
ChannelPost(fuid) ==
    /\ Len(channel) < MaxPosts
    /\ channel' = Append(channel, fuid)
    /\ UNCHANGED <<file_index, calls>>
    /\ UNCHANGED indexRest

\* add_file_to_index(message) is called for channel message m
\* (auto_index_channel_post, general_file_handler)
IndexCall(m) ==
    /\ m \in DOMAIN channel
    /\ Len(calls) < MaxCalls
    /\ calls' = Append(calls,
                   [id |-> m, file_unique_id |-> channel[m], pc |-> "find",
                    result |-> "none",
                    indexed_at_call |->
                        find_file_by_unique_id(file_index, channel[m]) # {}])
    /\ UNCHANGED <<channel, file_index>>
    /\ UNCHANGED indexRest

\* existing_file = await find_file_by_unique_id(file_unique_id)
IndexFind(k) ==
    /\ k \in DOMAIN calls
    /\ calls[k].pc = "find"
    /\ calls' = IF find_file_by_unique_id(file_index, calls[k].file_unique_id) # {}
                THEN [calls EXCEPT ![k].pc = "done", ![k].result = "duplicate"]
                ELSE [calls EXCEPT ![k].pc = "insert"]
    /\ UNCHANGED <<channel, file_index>>
    /\ UNCHANGED indexRest

\* file_index.insert_one({...}); DuplicateKeyError answers "duplicate"
IndexInsert(k) ==
    /\ k \in DOMAIN calls
    /\ calls[k].pc = "insert"
    /\ LET doc == [_id |-> calls[k].id, file_unique_id |-> calls[k].file_unique_id] IN
       /\ file_index' = insert_one(file_index, doc)
       /\ calls' = [calls EXCEPT ![k].pc = "done",
                       ![k].result = IF DuplicateKey(file_index, doc)
                                     THEN "duplicate" ELSE "new"]
    /\ UNCHANGED channel
    /\ UNCHANGED indexRest

(***************************************************************************)
(* plugins/linker.py: linker_callback_handler and general_file_handler.    *)
(* add_file_to_index awaits nothing that suspends, so a handler runs it in *)
(* the step in which its message.copy answers.                             *)
(***************************************************************************)
\* the id of the DB channel
CHANNEL_ID == -1001234

\* BULK_SESSIONS has no entry for the admin
NoSession == [open |-> FALSE, ids |-> << >>, unique_ids |-> {}]

\* the bot has sent no link yet
NoReply == [kind |-> "none", user |-> -1, payload |-> << >>, files |-> {}, count |-> 0]

Min(S) == CHOOSE x \in S : \A y \in S : x <= y

Max(S) == CHOOSE x \in S : \A y \in S : x >= y

Elems(q) == {q[i] : i \in DOMAIN q}

\* the buttons of the /genlink menu and of bulk mode
LinkerActions == {"single", "bulk_start", "bulk_done", "bulk_cancel"}

linker_callback_handler(a, action) ==
    /\ a \in ADMINS
    /\ CASE action = "single" ->
              /\ CONVERSATION_STATE' =
                     [CONVERSATION_STATE EXCEPT ![a] = "awaiting_single_file"]
              /\ UNCHANGED <<BULK_SESSIONS, reply_link>>
         [] action = "bulk_start" ->
              /\ BULK_SESSIONS' = [BULK_SESSIONS EXCEPT ![a] =
                                     [NoSession EXCEPT !.open = TRUE]]
              /\ CONVERSATION_STATE' = [CONVERSATION_STATE EXCEPT ![a] = "bulk_mode"]
              /\ UNCHANGED reply_link
         [] action = "bulk_done" ->
              LET session == BULK_SESSIONS[a] IN
              IF ~session.open \/ session.ids = << >>
              THEN UNCHANGED <<BULK_SESSIONS, CONVERSATION_STATE, reply_link>>
              ELSE /\ BULK_SESSIONS' = [BULK_SESSIONS EXCEPT ![a] = NoSession]
                   /\ CONVERSATION_STATE' = [CONVERSATION_STATE EXCEPT ![a] = "none"]
                   /\ reply_link' =
                         [kind |-> "batch", user |-> a,
                          payload |-> batch_link(Min(Elems(session.ids)),
                                                 Max(Elems(session.ids)), CHANNEL_ID),
                          files |-> Elems(session.ids), count |-> Len(session.ids)]
         [] OTHER ->
              /\ BULK_SESSIONS' = [BULK_SESSIONS EXCEPT ![a] = NoSession]
              /\ CONVERSATION_STATE' = [CONVERSATION_STATE EXCEPT ![a] = "none"]
              /\ UNCHANGED reply_link
    /\ UNCHANGED <<uploads, nupload, indexVars, linkerRest>>
    /\ UNCHANGED <<WORKSPACE_SESSIONS, temp_files, jobs, now, nvideo, closed>>

\* faulty variant: a check that never finds the file
is_duplicate_never(idx, fuid) == FALSE

\* existing_file = await find_file_by_unique_id(file_unique_id)
is_duplicate(idx, fuid) == find_file_by_unique_id(idx, fuid) # {}

\* the link of an entry of the index
existing_link(idx, fuid) ==
    LET existing_file == CHOOSE d \in find_file_by_unique_id(idx, fuid) : TRUE IN
    [kind |-> "existing", user |-> -1,
     payload |-> single_link(existing_file._id, CHANNEL_ID),
     files |-> {existing_file._id}, count |-> 1]

\* an admin sends a media file with file_unique_id fuid: general_file_handler
\* runs up to its message.copy; reply is the outcome of 'Processing...'
general_file_handler(a, fuid, reply) ==
    /\ a \in ADMINS
    /\ nupload < MaxUploads
    /\ nupload' = nupload + 1
    /\ LET current_state == CONVERSATION_STATE[a] IN
       CASE current_state = "bulk_mode" ->
              /\ reply = "ok"
              /\ uploads' = IF fuid \in BULK_SESSIONS[a].unique_ids THEN uploads
                            ELSE Append(uploads, [user |-> a, file_unique_id |-> fuid,
                                                  mode |-> "bulk"])
              /\ UNCHANGED <<CONVERSATION_STATE, reply_link>>
         [] current_state \in {"awaiting_single_file", "none"} ->
              /\ CONVERSATION_STATE' = [CONVERSATION_STATE EXCEPT ![a] = "none"]
              /\ IF is_duplicate(file_index, fuid)
                 THEN /\ reply = "ok"
                      /\ reply_link' = [existing_link(file_index, fuid) EXCEPT !.user = a]
                      /\ UNCHANGED uploads
                 ELSE /\ uploads' = IF reply # "ok" THEN uploads
                                    ELSE Append(uploads,
                                            [user |-> a, file_unique_id |-> fuid,
                                             mode |-> "single"])
                      /\ UNCHANGED reply_link
         [] OTHER ->
              /\ reply = "ok"
              /\ UNCHANGED <<CONVERSATION_STATE, uploads, reply_link>>
    /\ UNCHANGED <<BULK_SESSIONS, indexVars, linkerRest>>
    /\ UNCHANGED <<WORKSPACE_SESSIONS, temp_files, jobs, now, nvideo, closed>>

\* message.copy(chat_id=client.db_channel.id) of run k answers: the post,
\* add_file_to_index, and the session entry or the link
UploadCopy(k, outcome) ==
    /\ k \in DOMAIN uploads
    /\ uploads' = Returned(uploads, k)
    /\ LET run  == uploads[k]
           post == Len(channel) + 1
           doc  == [_id |-> post, file_unique_id |-> run.file_unique_id]
       IN  IF outcome # "ok"
           THEN UNCHANGED <<channel, file_index, BULK_SESSIONS, reply_link>>
           ELSE /\ channel' = Append(channel, run.file_unique_id)
                /\ file_index' = IF is_duplicate(file_index, run.file_unique_id)
                                 THEN file_index ELSE insert_one(file_index, doc)
                /\ IF run.mode = "bulk"
                   THEN \* BULK_SESSIONS[user_id] raises KeyError after Done or
                        \* Cancel; the except clause logs it
                        /\ BULK_SESSIONS' =
                              IF BULK_SESSIONS[run.user].open
                              THEN [BULK_SESSIONS EXCEPT
                                      ![run.user].ids = Append(@, post),
                                      ![run.user].unique_ids =
                                          @ \cup {run.file_unique_id}]
                              ELSE BULK_SESSIONS
                        /\ UNCHANGED reply_link
                   ELSE /\ reply_link' =
                              [kind |-> "new", user |-> run.user,
                               payload |-> single_link(post, CHANNEL_ID),
                               files |-> {post}, count |-> 1]
                        /\ UNCHANGED BULK_SESSIONS
    /\ UNCHANGED <<nupload, calls, workVars, linkerRest>>

(***************************************************************************)
(* plugins/group_manager.py and plugins/admin.py: the approved groups.     *)
(***************************************************************************)
Groups == 1..NumGroups

\* a Telegram user who is not an admin of the bot
STRANGER == 2

\* everybody who can send the bot a callback query
Actors == ADMINS \cup {STRANGER}

add_group(ag, group_id, group_name) ==
    [g \in DOMAIN ag \cup {group_id} |->
        IF g = group_id THEN [name |-> group_name] ELSE ag[g]]

remove_group(ag, group_id) == [g \in DOMAIN ag \ {group_id} |-> ag[g]]

\* the buttons of the message on_bot_status_change sends to the owner
AlertButtons(g, status, is_admin) ==
    CASE status = "MEMBER" /\ is_admin -> {<<"approve", g>>, <<"disapprove", g>>}
      [] status = "MEMBER" -> {<<"disapprove", g>>}
      [] status = "ADMINISTRATOR" -> {<<"approve", g>>, <<"disapprove", g>>}
      [] OTHER -> {}

\* scenario 3 of on_bot_status_change: kicked or left, the group is cleaned up
AfterStatusChange(ag, g, status) ==
    IF status \in {"BANNED", "LEFT"} THEN remove_group(ag, g) ELSE ag

\* Telegram reports the bot's new status in group g; is_admin is the answer
\* of chat.get_member, sent the outcome of the alert to the owner
on_bot_status_change(g, status, is_admin, sent_alert) ==
    /\ bot_status[g] # status
    /\ bot_status' = [bot_status EXCEPT ![g] = status]
    /\ approved_groups' = AfterStatusChange(approved_groups, g, status)
    /\ buttons' = IF sent_alert = "ok"
                  THEN buttons \cup AlertButtons(g, status, is_admin)
                  ELSE buttons
    /\ update' = [kind |-> "chat_member_updated", actor |-> -1]
    /\ UNCHANGED groupRest

\* /groups: the owner is sent a disapprove button for every approved group
list_groups_command ==
    /\ buttons' = buttons \cup {<<"disapprove", g>> : g \in DOMAIN approved_groups}
    /\ update' = [kind |-> "groups_command", actor |-> OWNER_ID]
    /\ UNCHANGED <<approved_groups, bot_status>>
    /\ UNCHANGED groupRest

\* faulty variant: the callback handler registered without filters.user(OWNER_ID)
GroupFilter_any(actor) == TRUE

\* filters.regex("^grp_") & filters.user(OWNER_ID)
GroupFilter(actor) == actor = OWNER_ID

\* a grp_<action>_<group> callback query from actor; the owner sends the data
\* of a button he was sent, anybody else can only make the data up;
\* name is chat.title, or "this group" when get_chat fails
group_management_callback(actor, action, g, name, leave) ==
    /\ actor = OWNER_ID => <<action, g>> \in buttons
    /\ update' = [kind |-> "grp_callback", actor |-> actor]
    /\ IF ~GroupFilter(actor)
       THEN UNCHANGED <<approved_groups, bot_status>>
       ELSE IF action = "approve"
       THEN /\ approved_groups' = add_group(approved_groups, g, name)
            /\ UNCHANGED bot_status
       ELSE /\ approved_groups' = remove_group(approved_groups, g)
            /\ bot_status' = IF leave = "ok" /\ bot_status[g] \in {"MEMBER", "ADMINISTRATOR"}
                             THEN [bot_status EXCEPT ![g] = "LEFT"]
                             ELSE bot_status
    /\ UNCHANGED buttons
    /\ UNCHANGED groupRest

\* admin_action_disapprovegroup_<group> from the admin panel's group list
\* (admin_callback_handler, filters.user(ADMINS))
handle_disapprove_group(actor, g, leave) ==
    /\ actor \in ADMINS => g \in DOMAIN approved_groups
    /\ update' = [kind |-> "admin_callback", actor |-> actor]
    /\ IF actor \notin ADMINS
       THEN UNCHANGED <<approved_groups, bot_status>>
       ELSE /\ approved_groups' = remove_group(approved_groups, g)
            /\ bot_status' = IF leave = "ok" /\ bot_status[g] \in {"MEMBER", "ADMINISTRATOR"}
                             THEN [bot_status EXCEPT ![g] = "LEFT"]
                             ELSE bot_status
    /\ UNCHANGED buttons
    /\ UNCHANGED groupRest

(***************************************************************************)
(* plugins/workspace.py: the video workspace of the admins.  os.remove on  *)
(* a file that exists is taken to succeed.                                 *)
(***************************************************************************)
\* dict.pop(a, None)
pop(d, a) == [x \in DOMAIN d \ {a} |-> d[x]]

\* get_main_workspace_markup
MainMenu == {<<"menu", "ss">>, <<"menu", "clip">>, <<"menu", "cleanup">>}

\* the buttons of the completion message of a job
DoneMenu == {<<"main", "menu">>, <<"menu", "cleanup">>}

\* the keyboard the handler of a press puts in place of the pressed one: none
\* for a prompt, for 'Workspace Closed' and for a deleted message
KeyboardAfter(press) ==
    CASE press = <<"main", "menu">> -> MainMenu
      [] press[1] = "menu" /\ press[2] \in {"ss", "clip"} ->
            {<<press[2], "random">>, <<press[2], "manual">>, <<"main", "menu">>}
      [] press[2] = "random" -> {<<press[1], "take_random">>, <<"menu", press[1]>>}
      [] OTHER -> {}

\* the session workspace_video_handler stores for the video in message
\* msg_id; buttons are the buttons under the bot's messages of the session
NewSession(msg_id, t) ==
    [msg_id |-> msg_id, file_path |-> 0, last_active |-> t, buttons |-> MainMenu]

\* TEMP_DIR after the video file of a's session, if any, is removed
RemoveSessionFile(files, ws, a) ==
    IF a \in DOMAIN ws /\ ws[a].file_path # 0 /\ ws[a].file_path \in files
    THEN files \ {ws[a].file_path}
    ELSE files

\* /process from admin a; for a session that has no file yet
\* os.path.exists(None) raises TypeError after the session was popped
process_command_handler(a) ==
    /\ temp_files' = RemoveSessionFile(temp_files, WORKSPACE_SESSIONS, a)
    /\ WORKSPACE_SESSIONS' = pop(WORKSPACE_SESSIONS, a)
    /\ CONVERSATION_STATE' =
          IF a \in DOMAIN WORKSPACE_SESSIONS /\ WORKSPACE_SESSIONS[a].file_path = 0
          THEN CONVERSATION_STATE
          ELSE [CONVERSATION_STATE EXCEPT ![a] = "awaiting_process_video"]
    /\ UNCHANGED <<jobs, now, nvideo, closed>>
    /\ UNCHANGED workRest

\* faulty variant: a handler that takes every video
AwaitingVideo_always(cs, a) == TRUE

\* CONVERSATION_STATE.get(user_id) == 'awaiting_process_video'
AwaitingVideo(cs, a) == cs[a] = "awaiting_process_video"

\* admin a sends a video or another document
workspace_video_handler(a, is_video) ==
    /\ nvideo < MaxVideos
    /\ IF ~AwaitingVideo(CONVERSATION_STATE, a)
       THEN UNCHANGED <<CONVERSATION_STATE, WORKSPACE_SESSIONS, nvideo>>
       ELSE /\ CONVERSATION_STATE' = [CONVERSATION_STATE EXCEPT ![a] = "none"]
            /\ IF is_video
               THEN /\ nvideo' = nvideo + 1
                    /\ WORKSPACE_SESSIONS' =
                         [x \in DOMAIN WORKSPACE_SESSIONS \cup {a} |->
                            IF x = a THEN NewSession(nvideo + 1, now)
                            ELSE WORKSPACE_SESSIONS[x]]
               ELSE UNCHANGED <<WORKSPACE_SESSIONS, nvideo>>
    /\ UNCHANGED <<temp_files, jobs, now, closed>>
    /\ UNCHANGED workRest

\* the buttons of the workspace menus: <<action, subaction>>
Presses ==
    {<<"main", "menu">>, <<"menu", "ss">>, <<"menu", "clip">>, <<"menu", "cleanup">>,
     <<"ss", "random">>, <<"ss", "manual">>, <<"ss", "take_random">>,
     <<"clip", "random">>, <<"clip", "manual">>, <<"clip", "take_random">>}

\* a task created by asyncio.create_task(run_process_and_notify(...))
NewJob(a) == [user_id |-> a, pc |-> "created", msg_id |-> 0]

\* admin a presses button ws|action|subaction|msg_id of a message of the
\* session; edited is the outcome of the edit (for take_random: the delete)
\* of that message, which follows the handler's updates of the dicts
workspace_callback_handler(a, press, msg_id, edited) ==
    IF a \notin DOMAIN WORKSPACE_SESSIONS \/ WORKSPACE_SESSIONS[a].msg_id # msg_id
    THEN UNCHANGED vars
    ELSE LET touched == [WORKSPACE_SESSIONS EXCEPT
                           ![a].last_active = now,
                           ![a].buttons = IF edited = "ok" THEN KeyboardAfter(press)
                                          ELSE @] IN
         /\ press \in WORKSPACE_SESSIONS[a].buttons
         /\ closed' = IF press = <<"menu", "cleanup">> THEN closed \cup {msg_id}
                       ELSE closed
         /\ CASE press = <<"menu", "cleanup">> ->
                   /\ temp_files' = RemoveSessionFile(temp_files, touched, a)
                   /\ WORKSPACE_SESSIONS' = pop(touched, a)
                   /\ UNCHANGED <<CONVERSATION_STATE, jobs>>
              [] press[2] = "manual" ->
                   /\ CONVERSATION_STATE' =
                        [CONVERSATION_STATE EXCEPT ![a] =
                            IF press[1] = "ss" THEN "awaiting_ss_timestamps"
                            ELSE "awaiting_clip_details"]
                   /\ WORKSPACE_SESSIONS' = touched
                   /\ UNCHANGED <<temp_files, jobs>>
              [] press[2] = "take_random" ->
                   /\ Len(jobs) < MaxJobs
                   /\ jobs' = IF edited = "ok" THEN Append(jobs, NewJob(a)) ELSE jobs
                   /\ WORKSPACE_SESSIONS' = touched
                   /\ UNCHANGED <<CONVERSATION_STATE, temp_files>>
              [] OTHER ->
                   /\ WORKSPACE_SESSIONS' = touched
                   /\ UNCHANGED <<CONVERSATION_STATE, temp_files, jobs>>
         /\ UNCHANGED <<now, nvideo>>
         /\ UNCHANGED workRest

\* admin a sends a text; text is "ok", "invalid" (a clip reply that does not
\* parse or asks for more than 60 s) or "raise" (message.delete fails)
details_handler(a, text) ==
    /\ Len(jobs) < MaxJobs
    /\ IF CONVERSATION_STATE[a] \notin {"awaiting_clip_details", "awaiting_ss_timestamps"}
       THEN UNCHANGED <<CONVERSATION_STATE, jobs>>
       ELSE /\ CONVERSATION_STATE' = [CONVERSATION_STATE EXCEPT ![a] = "none"]
            /\ jobs' = IF text = "ok"
                          \/ (text = "invalid"
                              /\ CONVERSATION_STATE[a] = "awaiting_ss_timestamps")
                       THEN Append(jobs, NewJob(a))
                       ELSE jobs
    /\ UNCHANGED <<WORKSPACE_SESSIONS, temp_files, now, nvideo, closed>>
    /\ UNCHANGED workRest

\* the session dict a job took from WORKSPACE_SESSIONS is still the one in it
Live(ws, a, m) == a \in DOMAIN ws /\ ws[a].msg_id = m

\* the task has ended
Ended(js, k) == [j \in 1..(Len(js) - 1) |-> IF j < k THEN js[j] ELSE js[j + 1]]

\* run_process_and_notify up to its first await
JobStart(k) ==
    /\ k \in DOMAIN jobs
    /\ jobs[k].pc = "created"
    /\ LET a == jobs[k].user_id IN
       jobs' = IF a \notin DOMAIN WORKSPACE_SESSIONS THEN Ended(jobs, k)
               ELSE LET session == WORKSPACE_SESSIONS[a] IN
                    [jobs EXCEPT ![k].msg_id = session.msg_id,
                                 ![k].pc = IF session.file_path = 0
                                              \/ session.file_path \notin temp_files
                                           THEN "download" ELSE "cached"]
    /\ UNCHANGED <<CONVERSATION_STATE, WORKSPACE_SESSIONS, temp_files, now, nvideo, closed>>
    /\ UNCHANGED workRest

\* client.download_media answers; the path and last_active are written into
\* the session dict the job holds
JobDownload(k, outcome) ==
    /\ k \in DOMAIN jobs
    /\ jobs[k].pc = "download"
    /\ LET a == jobs[k].user_id
           m == jobs[k].msg_id IN
       IF outcome = "ok"
       THEN /\ temp_files' = temp_files \cup {m}
            /\ WORKSPACE_SESSIONS' =
                 IF Live(WORKSPACE_SESSIONS, a, m)
                 THEN [WORKSPACE_SESSIONS EXCEPT ![a].file_path = m,
                                                 ![a].last_active = now]
                 ELSE WORKSPACE_SESSIONS
            /\ jobs' = [jobs EXCEPT ![k].pc = "process"]
       ELSE /\ jobs' = Ended(jobs, k)
            /\ UNCHANGED <<temp_files, WORKSPACE_SESSIONS>>
    /\ UNCHANGED <<CONVERSATION_STATE, now, nvideo, closed>>
    /\ UNCHANGED workRest

\* 'Using cached video' is sent; last_active is written
JobCached(k, outcome) ==
    /\ k \in DOMAIN jobs
    /\ jobs[k].pc = "cached"
    /\ LET a == jobs[k].user_id
           m == jobs[k].msg_id IN
       IF outcome = "ok"
       THEN /\ WORKSPACE_SESSIONS' =
                 IF Live(WORKSPACE_SESSIONS, a, m)
                 THEN [WORKSPACE_SESSIONS EXCEPT ![a].last_active = now]
                 ELSE WORKSPACE_SESSIONS
            /\ jobs' = [jobs EXCEPT ![k].pc = "process"]
       ELSE /\ jobs' = Ended(jobs, k)
            /\ UNCHANGED WORKSPACE_SESSIONS
    /\ UNCHANGED <<CONVERSATION_STATE, temp_files, now, nvideo, closed>>
    /\ UNCHANGED workRest

\* the media are generated and uploaded and the completion message with its
\* buttons is sent, or an error is reported
JobProcess(k, outcome) ==
    /\ k \in DOMAIN jobs
    /\ jobs[k].pc = "process"
    /\ jobs' = Ended(jobs, k)
    /\ LET a == jobs[k].user_id
           m == jobs[k].msg_id IN
       WORKSPACE_SESSIONS' =
           IF outcome = "ok" /\ Live(WORKSPACE_SESSIONS, a, m)
           THEN [WORKSPACE_SESSIONS EXCEPT ![a].buttons = @ \cup DoneMenu]
           ELSE WORKSPACE_SESSIONS
    /\ UNCHANGED <<CONVERSATION_STATE, temp_files, now, nvideo, closed>>
    /\ UNCHANGED workRest

\* time passes
Tick ==
    /\ now < MaxClock
    /\ now' = now + 1
    /\ UNCHANGED <<CONVERSATION_STATE, WORKSPACE_SESSIONS, temp_files, jobs, nvideo, closed>>
    /\ UNCHANGED workRest

(***************************************************************************)
(* plugins/search.py and the search branch of start_command.  The model    *)
(* follows one query: ranked lists the documents of the file index in the  *)
(* order of their text score for it, and SEARCH_RESULTS_CACHE is the entry *)
(* of its query_hash.  A document without a file name (file_name None, 0   *)
(* here) has no text to match and is in no result of search_files.         *)
(***************************************************************************)
\* no entry under the query_hash
NoEntry == [results |-> << >>, timestamp |-> -1]

\* file_index.find({'$text': ...}).sort(score).limit(limit)
search_files(docs, limit) ==
    LET found == SelectSeq(docs, LAMBDA doc : doc.file_name # 0) IN
    SubSeq(found, 1, IF Len(found) < limit THEN Len(found) ELSE limit)

\* the loop over db_results with seen_filenames
RECURSIVE unique_loop(_, _)
unique_loop(db_results, seen_filenames) ==
    IF db_results = << >> THEN << >>
    ELSE LET doc == Head(db_results)
             filename == doc.file_name IN
         IF filename # 0 /\ filename \notin seen_filenames
         THEN <<doc>> \o unique_loop(Tail(db_results), seen_filenames \cup {filename})
         ELSE unique_loop(Tail(db_results), seen_filenames)

\* faulty variant: every document is appended
unique_results_all(db_results) == db_results

\* universal_search_handler's de-duplication
unique_results(db_results) == unique_loop(db_results, {})

\* the list comprehension of start_command, from entry i on
RECURSIVE unique_from(_, _)
unique_from(results, i) ==
    IF i > Len(results) THEN << >>
    ELSE (IF results[i].file_name \notin {results[j].file_name : j \in 1..(i - 1)}
          THEN <<results[i]>> ELSE << >>) \o unique_from(results, i + 1)

\* start_command's de-duplication
start_unique_results(results) == unique_from(results, 1)

\* math.ceil(total_results / RESULTS_PER_PAGE) if total_results > 0 else 1
total_pages(results) ==
    IF Len(results) > 0
    THEN (Len(results) + RESULTS_PER_PAGE - 1) \div RESULTS_PER_PAGE
    ELSE 1

\* max(1, min(page, total_pages))
clamp(page, results) ==
    LET low == IF page < total_pages(results) THEN page ELSE total_pages(results) IN
    IF low > 1 THEN low ELSE 1

\* the pages of the 'Prev' and 'Next' buttons under a result message
nav_row(msg) ==
    {p \in {msg.page - 1, msg.page + 1} : p >= 1 /\ p <= total_pages(msg.results)}

\* the message send_search_results writes: the list it was handed and the
\* page it shows; stored is the time the list came from search_files
ResultMessage(results, page, stored) ==
    [results |-> results, page |-> clamp(page, results), stored |-> stored, at |-> now]

\* a media message with file name `name` is indexed and ranks at position pos
IndexDoc(name, pos) ==
    /\ Len(ranked) < MaxDocs
    /\ pos \in 1..(Len(ranked) + 1)
    /\ ranked' = SubSeq(ranked, 1, pos - 1)
                  \o <<[_id |-> Len(ranked) + 1, file_name |-> name]>>
                  \o SubSeq(ranked, pos, Len(ranked))
    /\ UNCHANGED <<SEARCH_RESULTS_CACHE, rmsgs>>
    /\ UNCHANGED searchRest

\* whether universal_search_handler uses the cache entry
Fresh_always(cached, t) == cached # NoEntry

Fresh(cached, t) == cached # NoEntry /\ t - cached.timestamp < CACHE_TIME

\* the query is sent as a text, in a private chat or in an approved group;
\* replied is the outcome of the reply in the private chat
universal_search_handler(chat, replied) ==
    LET cached == SEARCH_RESULTS_CACHE
        results == IF Fresh(cached, now) THEN cached.results
                   ELSE unique_results(search_files(ranked, SEARCH_LIMIT))
        stored == IF Fresh(cached, now) THEN cached.timestamp ELSE now IN
    /\ Len(rmsgs) < MaxSearches
    /\ SEARCH_RESULTS_CACHE' =
          IF ~Fresh(cached, now) /\ results # << >>
          THEN [results |-> results, timestamp |-> now]
          ELSE SEARCH_RESULTS_CACHE
    /\ rmsgs' = IF results # << >> /\ chat = "private" /\ replied = "ok"
                THEN Append(rmsgs, ResultMessage(results, 1, stored))
                ELSE rmsgs
    /\ UNCHANGED ranked
    /\ UNCHANGED searchRest

\* /start search_<query>, opened from the button of a group reply
start_search(replied) ==
    LET results == search_files(ranked, START_LIMIT)
        unique == start_unique_results(results) IN
    /\ Len(rmsgs) < MaxSearches
    /\ rmsgs' = IF unique # << >> /\ replied = "ok"
                THEN Append(rmsgs, ResultMessage(unique, 1, now))
                ELSE rmsgs
    /\ UNCHANGED <<ranked, SEARCH_RESULTS_CACHE>>
    /\ UNCHANGED searchRest

\* button spage_<page>_<query_hash> of result message i is pressed; edited is
\* the outcome of the edit of that message
handle_page_switch(i, page, edited) ==
    LET cached_data == SEARCH_RESULTS_CACHE IN
    /\ i \in DOMAIN rmsgs
    /\ page \in nav_row(rmsgs[i])
    /\ rmsgs' = IF cached_data # NoEntry /\ edited = "ok"
                THEN [rmsgs EXCEPT ![i] = ResultMessage(cached_data.results, page,
                                                        cached_data.timestamp)]
                ELSE rmsgs
    /\ UNCHANGED <<ranked, SEARCH_RESULTS_CACHE>>
    /\ UNCHANGED searchRest

InitSearch ==
    /\ ranked = << >>
    /\ SEARCH_RESULTS_CACHE = NoEntry
    /\ rmsgs = << >>

SearchNext ==
    \/ \E name \in 0..NumNames, pos \in 1..MaxDocs : IndexDoc(name, pos)
    \/ \E chat \in {"private", "group"}, o \in CallOutcomes :
          universal_search_handler(chat, o)
    \/ \E o \in CallOutcomes : start_search(o)
    \/ \E i \in 1..MaxSearches, page \in 1..MaxDocs, o \in CallOutcomes :
          handle_page_switch(i, page, o)

(***************************************************************************)
(* bot.py: Bot.start.  helper_func and plugins/start.py bind the name      *)
(* FORCE_SUB_CHANNEL with 'from config import' when the plugins are loaded; *)
(* Bot.start reads and assigns the attribute of the module config.         *)
(***************************************************************************)
\* self.invitelink = None; a link is 1
NoInviteLink == 0

\* the force-subscribe block of Bot.start; outcome is that of get_chat and
\* export_chat_invite_link
BotStart(outcome) ==
    /\ ~boot.started
    /\ boot' = IF boot.config = 0
               THEN [boot EXCEPT !.started = TRUE]
               ELSE IF outcome = "ok"
               THEN [boot EXCEPT !.started = TRUE, !.invitelink = 1]
               ELSE [started |-> TRUE, config |-> 0, invitelink |-> NoInviteLink]
    /\ UNCHANGED bootRest

InitBoot == boot = [started |-> FALSE, config |-> FORCE_SUB_CHANNEL,
                    invitelink |-> NoInviteLink]

(***************************************************************************)
(* The state after construction, and the specifications.                   *)
(***************************************************************************)
InitWork ==
    /\ CONVERSATION_STATE = [a \in ADMINS |-> "none"]
    /\ WORKSPACE_SESSIONS = << >>
    /\ temp_files = {}
    /\ jobs = << >>
    /\ now = 0
    /\ nvideo = 0
    /\ closed = {}

InitGroups ==
    /\ approved_groups = << >>
    /\ bot_status = [g \in Groups |-> "none"]
    /\ buttons = {}
    /\ update = [kind |-> "none", actor |-> -1]

InitIndex ==
    /\ channel = << >>
    /\ file_index = {}
    /\ calls = << >>

InitLinks == lk = NoLink

InitFetch == gm = NoCall

InitLinker ==
    /\ BULK_SESSIONS = [a \in ADMINS |-> NoSession]
    /\ uploads = << >>
    /\ reply_link = NoReply
    /\ nupload = 0

InitServe ==
    /\ FORCE_SUB_CHANNEL \in {0, -100}
    /\ user_data = << >>
    /\ analytics_data = << >>
    /\ start = [u \in Users |-> IdleStart]
    /\ bc = IdleBroadcast
    /\ sent = << >>
    /\ timers = << >>
    /\ rq = << >>
    /\ nstart = 0 /\ nrq = 0

Init == InitServe /\ InitIndex /\ InitGroups /\ InitWork /\ InitLinks /\ InitLinker
        /\ InitFetch /\ InitSearch /\ InitBoot

\* the steps of the users' /start handlers
StartNext(U, P) ==
    \E u \in U :
        \/ \E ids \in P : StartCommand(u, ids)
        \/ \E lookup \in MemberLookups : StartMember(u, lookup)

ServeNext(U) ==
    \E u \in U :
        \/ \E o \in {"ok", "empty", "raise"} : PfrFetch(u, o)
        \/ \E o \in CopyOutcomes : PfrCopy(u, o)
        \/ \E o \in CopyOutcomes : PfrReply(u, o)
        \/ \E o \in CallOutcomes : PfrRetry(u, o)

AdminNext(U) ==
    \E a \in ADMINS, u \in U : AdminBan(a, u) \/ AdminUnban(a, u)

BroadcastNext ==
    \/ \E kind \in {"command", "panel"} : BroadcastStart(kind)
    \/ \E u \in Users, o \in CopyOutcomes : BroadcastCopy(u, o)
    \/ \E o \in CallOutcomes : BroadcastRetry(o)
    \/ BroadcastDone

TimerNext ==
    \E i \in DOMAIN timers :
        \/ \E o \in {"ok", "MessageNotModified", "Exception"} : TimerEdit(i, o)
        \/ \E o \in CallOutcomes : TimerDelete(i, o)
        \/ \E o \in CallOutcomes : TimerNotice(i, o)
        \/ \E o \in CallOutcomes : TimerFallback(i, o)
        \/ LinkExpires(i)

RerequestNext ==
    \/ \E i \in DOMAIN timers, e \in {"ok", "MessageNotModified", "raise"} :
          RqCallback(i, e)
    \/ \E k \in DOMAIN rq :
          \/ \E o \in {"ok", "empty", "raise"} : RqFetch(k, o)
          \/ \E o \in CallOutcomes : RqCopy(k, o)
          \/ \E d \in CallOutcomes, r \in CallOutcomes : RqTimer(k, d, r)

NextIndex ==
    \/ \E fuid \in FileUniqueIds : ChannelPost(fuid)
    \/ \E m \in DOMAIN channel : IndexCall(m)
    \/ \E k \in DOMAIN calls : IndexFind(k) \/ IndexInsert(k)

NextGroups ==
    \/ \E g \in Groups, st \in {"MEMBER", "ADMINISTRATOR", "BANNED", "LEFT"},
          is_admin \in BOOLEAN, o \in CallOutcomes :
            on_bot_status_change(g, st, is_admin, o)
    \/ list_groups_command
    \/ \E actor \in Actors, action \in {"approve", "disapprove"}, g \in Groups,
          name \in {"title", "this group"}, o \in CallOutcomes :
            group_management_callback(actor, action, g, name, o)
    \/ \E actor \in Actors, g \in Groups, o \in CallOutcomes :
            handle_disapprove_group(actor, g, o)

\* the steps of the run_process_and_notify tasks
JobNext ==
    \E k \in DOMAIN jobs :
        \/ JobStart(k)
        \/ \E o \in CallOutcomes : JobDownload(k, o)
        \/ \E o \in CallOutcomes : JobCached(k, o)
        \/ \E o \in CallOutcomes : JobProcess(k, o)

\* the admin whose workspace the workspace specification follows
Operator == OWNER_ID

AdminWorkNext ==
    \E a \in {Operator} :
        \/ process_command_handler(a)
        \/ \E is_video \in BOOLEAN : workspace_video_handler(a, is_video)
        \/ \E press \in Presses, m \in 1..MaxVideos, o \in CallOutcomes :
              workspace_callback_handler(a, press, m, o)
        \/ \E text \in {"ok", "invalid", "raise"} : details_handler(a, text)

\* the workspace of one admin, its tasks and the clock
NextWorkspace == AdminWorkNext \/ JobNext \/ Tick

\* the event loop runs every task that can take a step, and time passes;
\* nothing obliges an admin to act
SpecWorkspace ==
    Init /\ [][NextWorkspace]_vars /\ WF_vars(JobNext) /\ WF_vars(Tick)

\* the admin's workspace and its tasks at one instant: the handlers and
\* run_process_and_notify read the clock only to stamp last_active
NextIntake == AdminWorkNext \/ JobNext

SpecIntake == Init /\ [][NextIntake]_vars

\* the searches of one query while files are indexed and time passes
NextSearch == SearchNext \/ Tick

SpecSearch == Init /\ [][NextSearch]_vars

\* the searches of one query at one instant
SpecLookup == Init /\ [][SearchNext]_vars

SpecGroups == Init /\ [][NextGroups]_vars

SpecIndex == Init /\ [][NextIndex]_vars

\* registration, bans and broadcasts, for /start without a payload
NextUsers == StartNext(Users, {<< >>}) \/ AdminNext(Users) \/ BroadcastNext

\* the user whose requests the file-serving specification follows
Requester == 2

\* deep links, file expiry and re-requests of one user, and the admin's bans
NextServe ==
    \/ StartNext({Requester}, Payloads)
    \/ ServeNext({Requester})
    \/ AdminNext({Requester})
    \/ TimerNext
    \/ RerequestNext

SpecServe == Init /\ [][NextServe]_vars

SpecUsers == Init /\ [][NextUsers]_vars

\* the steps of a broadcast that has read its recipient list
BroadcastStep ==
    \/ \E u \in Users, o \in CopyOutcomes : BroadcastCopy(u, o)
    \/ \E o \in CallOutcomes : BroadcastRetry(o)
    \/ BroadcastDone

\* Telegram answers every call of a broadcast in flight and the event loop
\* resumes the handler; nothing obliges users or admins to act
SpecBroadcast == Init /\ [][NextUsers]_vars /\ WF_vars(BroadcastStep)

\* one deep link opened once by one user, the expiry of its copy and the
\* re-requests of it
NextRerequest ==
    \/ nstart = 0 /\ StartCommand(Requester, <<1>>)
    \/ \E lookup \in MemberLookups : StartMember(Requester, lookup)
    \/ ServeNext({Requester})
    \/ TimerNext
    \/ RerequestNext

SpecRerequest == Init /\ [][NextRerequest]_vars

\* the /start handlers of an admin and of another user, with and without a
\* deep link, up to the start of the expiry task of a served file
NextStart ==
    \/ StartNext({OWNER_ID, Requester}, Payloads \cup {<<1, 2>>})
    \/ ServeNext({OWNER_ID, Requester})

SpecStart == Init /\ [][NextStart]_vars

\* Bot.start, and then the /start commands of an admin and of a user
NextBoot ==
    \/ \E o \in CallOutcomes : BotStart(o)
    \/ boot.started /\ NextStart

SpecBoot == Init /\ [][NextBoot]_vars

\* link generation by the admins, and posts made in the DB channel directly
NextLinker ==
    \/ \E a \in ADMINS, action \in LinkerActions : linker_callback_handler(a, action)
    \/ \E a \in ADMINS, fuid \in FileUniqueIds, r \in CallOutcomes :
          general_file_handler(a, fuid, r)
    \/ \E k \in DOMAIN uploads, o \in CallOutcomes : UploadCopy(k, o)
    \/ \E fuid \in FileUniqueIds : ChannelPost(fuid)

SpecLinker == Init /\ [][NextLinker]_vars

\* the steps of a get_messages call in flight
GmStep == GmReturn \/ \E o \in {"ok", "FloodWait", "Exception"} : GmRequest(o)

\* the id lists of single links, of batch links (empty for an inverted
\* range) and of arbitrary order
IdLists ==
    {range(f, l) : f \in 1..MaxMsgId, l \in 0..(MaxMsgId + 1)} \cup {<<3, 1, 2>>}

NextFetch == GmStep \/ \E ids \in IdLists : GetMessages(ids)

\* Telegram answers every request and the event loop resumes the call
SpecFetch == Init /\ [][NextFetch]_vars /\ WF_vars(GmStep)

\* the ids of the DB channel a deployment can be configured with
DbChannelIds == {-1001234, -100, -7, 1}

\* the characters of the strings given to encode: NUL, '-', '=', '?', DEL
Chars == {0, 45, 61, 63, 127}

RECURSIVE Strings(_)
Strings(n) ==
    IF n = 0 THEN {<< >>}
    ELSE Strings(n - 1) \cup {Append(s, ch) : s \in Strings(n - 1), ch \in Chars}

\* links are generated and opened, strings are encoded and decoded
NextLinks ==
    \/ \E m \in 1..MaxMsgId, c \in DbChannelIds : SingleLink(m, c)
    \/ \E f \in 1..MaxMsgId, l \in 1..MaxMsgId, c \in DbChannelIds : BatchLink(f, l, c)
    \/ OpenLink
    \/ \E s \in Strings(MaxLen) : EncodeString(s)
    \/ DecodeString

SpecLinks == Init /\ [][NextLinks]_vars

(***************************************************************************)
(* The claims.                                                             *)
(***************************************************************************)
Banned(u) == u \in DOMAIN user_data /\ user_data[u].banned

\* the copies a step adds to the users' private chats
Delivered == {sent'[i] : i \in (Len(sent) + 1)..Len(sent')}

\* C1: while a user's record has banned = true, no handler (start_command's
\* process_file_request, rerequest_callback_handler) delivers a copy of a
\* stored file to that user
C1_BannedGetNoFile ==
    [][\A u \in Users : Banned(u) => \A c \in Delivered : c.to # u]_vars

\* C2: the banned flag of a record changes only through ban_user and
\* unban_user: a record that is banned stays banned unless the step is an
\* admin's unban, under every interleaving of bans with /start
C2_BannedUntilUnban ==
    [][\A u \in Users :
          Banned(u) /\ u \in DOMAIN user_data' /\ ~user_data'[u].banned
             => \E a \in ADMINS : AdminUnban(a, u)]_vars

IndexedIds(idx) == {d.file_unique_id : d \in idx}

\* no two index entries share a file_unique_id
UniqueFileUniqueId ==
    \A d1, d2 \in file_index : d1.file_unique_id = d2.file_unique_id => d1 = d2

\* a finished call whose file was indexed when it was made answered "duplicate"
DuplicateAnswered ==
    \A k \in DOMAIN calls :
        calls[k].pc = "done" /\ calls[k].indexed_at_call => calls[k].result = "duplicate"

\* the step that ends a call for an indexed file leaves the index as it was,
\* and a call answers "new" only for a file that was not indexed
DuplicateLeavesIndex ==
    \A k \in DOMAIN calls :
        calls[k].pc # "done" /\ calls'[k].pc = "done" =>
            /\ calls[k].file_unique_id \in IndexedIds(file_index) =>
                    file_index' = file_index /\ calls'[k].result = "duplicate"
            /\ calls'[k].result = "new" =>
                    calls[k].file_unique_id \notin IndexedIds(file_index)

\* C3: the file index is deduplicated by file_unique_id: under every
\* interleaving of add_file_to_index calls no two entries share a
\* file_unique_id, and a call for an already indexed file answers
\* "duplicate" and leaves the index unchanged
C3_IndexDeduplicated ==
    /\ [](UniqueFileUniqueId /\ DuplicateAnswered)
    /\ [][DuplicateLeavesIndex]_vars

\* two calls for one file had both passed the existence check before either
\* inserted; one answered "new", the other "duplicate"
C3_Witness ==
    \E j, k \in DOMAIN calls :
        /\ j # k
        /\ calls[j].file_unique_id = calls[k].file_unique_id
        /\ calls[j].id # calls[k].id
        /\ ~calls[j].indexed_at_call /\ ~calls[k].indexed_at_call
        /\ calls[j].result = "new" /\ calls[k].result = "duplicate"
        /\ Cardinality(file_index) = 1

\* the step in which start_command is through with its ban check, its
\* subscription check and its registration, for a /start that found no record
FirstStartHandled(u) ==
    \/ /\ u \notin DOMAIN user_data
       /\ \E ids \in Payloads : StartCommand(u, ids)
       /\ start'[u].pc # "get_chat_member"
    \/ /\ ~start[u].found
       /\ \E lookup \in MemberLookups : StartMember(u, lookup)

\* C4 as stated: after start_command has handled the first /start of a user
\* who has no record, a record with that user id exists
C4_RecordAfterFirstStart ==
    [][\A u \in Users : FirstStartHandled(u) => u \in DOMAIN user_data']_vars

\* C4, amended: after start_command has handled the first /start of a user
\* who has no record, a record of the user exists unless the /start ended in
\* the join prompt of the force-subscribe check, and a /start that ends in
\* the join prompt creates no record
C4_RecordAfterAdmittedStart ==
    [][\A u \in Users :
          FirstStartHandled(u) =>
             IF start'[u].last = "join_prompt"
             THEN user_data' = user_data
             ELSE u \in DOMAIN user_data']_vars

\* with force subscribe on, the owner's first /start registered the owner,
\* and a user who is not in the channel got the join prompt and no record
C4_Witness ==
    /\ FORCE_SUB_CHANNEL # 0
    /\ start[OWNER_ID].last = "welcome" /\ OWNER_ID \in DOMAIN user_data
    /\ \E u \in Users :
          /\ start[u].last = "join_prompt"
          /\ u \notin DOMAIN user_data

\* C5: a user record is removed only by the step of a broadcast
\* (broadcast_command or handle_broadcast) in which the copy to that user
\* failed with UserIsBlocked or InputUserDeactivated
C5_RemovedOnlyByBroadcast ==
    [][\A u \in Users :
          u \in DOMAIN user_data /\ u \notin DOMAIN user_data'
             => /\ bc.pc = "loop"
                /\ \E o \in {"UserIsBlocked", "InputUserDeactivated"} :
                      BroadcastCopy(u, o)]_vars

\* a broadcast is counting a recipient as blocked whose record, made by the
\* recipient's /start, is gone
C5_Witness ==
    /\ bc.blocked + bc.deleted > 0
    /\ \E u \in Users : start[u].last = "welcome" /\ u \notin DOMAIN user_data

\* the groups a step adds to, and removes from, the approved groups
Approved == DOMAIN approved_groups' \ DOMAIN approved_groups

Disapproved == DOMAIN approved_groups \ DOMAIN approved_groups'

ByOwnerButton == update'.kind = "grp_callback" /\ update'.actor = OWNER_ID

\* C6 as stated: an approved-group record is created or removed only by the
\* owner pressing an approve or disapprove button
C6_OnlyOwnerChangesGroups ==
    [][Approved \cup Disapproved # {} => ByOwnerButton]_vars

\* C6, amended: an approved-group record is created only by the owner
\* pressing an approve button; it is removed only by the owner pressing a
\* disapprove button, by an admin disapproving the group in the admin
\* panel, or by the membership event that reports the bot kicked from the
\* group or gone from it
C6_GroupChanges ==
    [][/\ Approved # {} => ByOwnerButton
       /\ \A g \in Disapproved :
             \/ ByOwnerButton
             \/ update'.kind = "admin_callback" /\ update'.actor \in ADMINS
             \/ /\ update'.kind = "chat_member_updated"
                /\ bot_status'[g] \in {"BANNED", "LEFT"}]_vars

\* one group is approved, and the membership event of another group, for
\* which the owner holds an approve button, reported the bot kicked
C6_Witness ==
    /\ update.kind = "chat_member_updated"
    /\ \E g \in DOMAIN approved_groups, h \in Groups \ DOMAIN approved_groups :
          bot_status[h] = "BANNED" /\ <<"approve", h>> \in buttons

\* last_active of a's session is older than SESSION_TIMEOUT
Stale(a) ==
    /\ a \in DOMAIN WORKSPACE_SESSIONS
    /\ now - WORKSPACE_SESSIONS[a].last_active > SESSION_TIMEOUT

\* C7: every workspace session whose last_active is older than
\* SESSION_TIMEOUT is eventually removed from WORKSPACE_SESSIONS, without
\* any further action by the admin: no session stays in WORKSPACE_SESSIONS
\* with a last_active older than SESSION_TIMEOUT for ever
C7_StaleSessionsReaped ==
    \A a \in ADMINS, m \in 1..MaxVideos :
        (Live(WORKSPACE_SESSIONS, a, m) /\ Stale(a))
            ~> ~(Live(WORKSPACE_SESSIONS, a, m) /\ Stale(a))

\* a handler in flight still holds copy i to start its handle_file_expiry task
TimerToCome(i) ==
    \/ \E u \in Users : start[u].pc = "reply" /\ start[u].sent_message = i
    \/ \E k \in DOMAIN rq : rq[k].pc = "delete" /\ rq[k].new = i

\* C8: every file sent to a user with AUTO_DELETE_TIME > 0 is expired by a
\* handle_file_expiry task: a copy in a user's chat has its task, or the
\* handler that sent it is about to start the task
C8_EverySentFileExpires ==
    AUTO_DELETE_TIME > 0 => \A i \in DOMAIN sent : i \in DOMAIN timers \/ TimerToCome(i)

\* C9: handle_file_expiry never deletes the sent file before AUTO_DELETE_TIME
\* seconds have elapsed since the timer started, whatever errors the edits
\* of the countdown message raise
C9_NotDeletedEarly ==
    \A i \in DOMAIN timers : ~sent[i].present => timers[i].elapsed >= AUTO_DELETE_TIME

\* the copies the re-request flow delivered for copy i
Resent(i) == {j \in DOMAIN sent : sent[j].via = "rerequest" /\ sent[j].origin = i}

\* C10: for each copy delivered through a deep link the re-request flow
\* delivers at most one further copy, also when the callback is delivered
\* more than once or concurrently, and the expiry of a re-sent copy offers no
\* re-request button
C10_OneMoreTime ==
    /\ \A i \in DOMAIN sent : Cardinality(Resent(i)) <= 1
    /\ \A i \in DOMAIN timers : timers[i].is_rerequest => timers[i].notice # "button"


\* a press of the button of timer message i is handled, the edit of the
\* expired branch answering e
Pressed(i, e) == RqCallback(i, e)

\* the handler run k ends without a copy for the user
EndsWithoutCopy(k) ==
    \/ \E o \in {"empty", "raise"} : RqFetch(k, o)
    \/ RqCopy(k, "raise")

StartStep(u, lookup) ==
    \/ \E ids \in Payloads : StartCommand(u, ids)
    \/ StartMember(u, lookup)

\* the step registers u, shows u the welcome menu or starts serving a file
Admits(u) ==
    \/ u \notin DOMAIN user_data /\ u \in DOMAIN user_data'
    \/ start'[u].pc = "idle" /\ start'[u].last = "welcome"
    \/ start'[u].pc = "process"

C13_PayloadRoundTrip ==
    lk.pc = "opened" =>
        /\ lk.kind = "single" => lk.reply = "files" /\ lk.ids = << lk.first >>
        /\ lk.kind = "batch" =>
              /\ lk.reply = "files"
              /\ Len(lk.ids) = lk.last - lk.first + 1
              /\ \A i \in DOMAIN lk.ids : lk.ids[i] = lk.first + i - 1
        /\ lk.kind = "string" => lk.decoded = lk.string

\* a batch link of more than one message has been opened for a channel id
\* with more than one digit
C13_Witness ==
    /\ lk.pc = "opened"
    /\ lk.kind = "batch"
    /\ lk.first < lk.last
    /\ abs(lk.c) > 1000
    /\ Len(lk.ids) > 1



\* the ids start_command hands to process_file_request for the link
Resolved(link) == Elems(deep_link_ids(link.payload, CHANNEL_ID).ids)

\* C14: the link produced by 'Done & Generate Link' resolves, through
\* start_command's decoding, to exactly the DB-channel messages added during
\* that bulk session, as many as the reported count, whatever else was posted
\* to the DB channel while the session was open
C14_BatchLinkIsTheSession ==
    reply_link.kind = "batch" =>
        /\ Resolved(reply_link) = reply_link.files
        /\ Cardinality(Resolved(reply_link)) = reply_link.count


\* C15: general_file_handler never copies to the DB channel a file whose
\* file_unique_id is already in the file index; for such a file it replies
\* with the link of the existing entry
C15_DuplicatesNotCopied ==
    [][/\ \A k \in DOMAIN uploads :
             UploadCopy(k, "ok") =>
                 uploads[k].file_unique_id \notin IndexedIds(file_index)
       /\ \A a \in ADMINS, fuid \in IndexedIds(file_index) :
             general_file_handler(a, fuid, "ok") =>
                 /\ uploads' = uploads
                 /\ reply_link'.kind = "existing"
                 /\ reply_link'.user = a
                 /\ \E d \in file_index :
                       /\ d.file_unique_id = fuid
                       /\ Resolved(reply_link') = {d._id}]_vars


\* the step is an iteration of process_file_request's loop for user u that
\* logs the download of the message it is about to copy
LogsDownload(u) ==
    /\ \E o \in CopyOutcomes : PfrCopy(u, o)
    /\ analytics_data' =
          Append(analytics_data, [file_id |-> Head(start[u].msgs), user_id |-> u,
                                  timestamp |-> now])

\* C16: the download log is append-only: every step leaves the existing
\* analytics records unchanged and present, and the collection changes only
\* by log_file_download adding exactly one record {file_id, user_id,
\* timestamp}
C16_LogAppendOnly ==
    [][/\ Len(analytics_data') >= Len(analytics_data)
       /\ SubSeq(analytics_data', 1, Len(analytics_data)) = analytics_data
       /\ analytics_data' # analytics_data => \E u \in Users : LogsDownload(u)]_vars

\* two downloads are logged, the first record as it was written
C16_Witness ==
    /\ Len(analytics_data) >= 2
    /\ analytics_data[1].file_id = 1
    /\ analytics_data[2].file_id = 2


\* the counters of the broadcast in flight
Counted(b) == b.successful + b.blocked + b.deleted + b.unsuccessful

\* C17: every broadcast that has read its recipient list eventually edits
\* the status message to 'Broadcast Completed', and the counters it reports
\* sum to the number of recipients, also when a copy raises FloodWait and
\* the retried copy fails
C17_BroadcastCompletes ==
    /\ [](bc.status = "broadcasting" => <>(bc.status = "completed"))
    /\ [][BroadcastDone => Counted(bc) = bc.total_users]_vars


\* the ids of the list whose batch, counted in consecutive batches of
\* BatchSize from the start of the list, is in the set of offsets S, in the
\* order of the list
IdsOfBatches(ids, S) ==
    LET kept == SelectSeq([i \in 1..Len(ids) |-> i],
                          LAMBDA i : ((i - 1) \div BatchSize) * BatchSize \in S)
    IN  [j \in 1..Len(kept) |-> ids[kept[j]]]

\* C18: get_messages terminates for every finite id list, the empty list
\* included, when FloodWait is raised finitely often; it requests the ids in
\* consecutive batches of at most BatchSize (200), repeats a batch only
\* after FloodWait, advances past a batch that fails with another error,
\* and returns the messages of the successful batches in id-list order
C18_GetMessagesTerminates ==
    /\ [](gm.pc = "loop" => <>(gm.pc = "returned"))
    /\ [](/\ gm.total_messages <= Len(gm.message_ids)
          /\ gm.pc = "returned" =>
                gm.messages = IdsOfBatches(gm.message_ids, gm.good))
    /\ [][\A o \in {"ok", "FloodWait", "Exception"} :
            GmRequest(o) =>
               /\ Len(batch_ids(gm.message_ids, gm.total_messages)) \in 1..BatchSize
               /\ IF o = "FloodWait"
                  THEN gm'.total_messages = gm.total_messages
                  ELSE gm'.total_messages > gm.total_messages
               /\ o = "ok" <=> gm'.good # gm.good]_vars

\* a call for more than one batch has returned after a FloodWait, with one
\* batch answered and another failed
C18_Witness ==
    /\ gm.pc = "returned"
    /\ Len(gm.message_ids) > BatchSize
    /\ gm.floods > 0
    /\ gm.messages # << >>
    /\ Len(gm.messages) < Len(gm.message_ids)


\* C19: once the 'Close Session' callback has been handled for an admin's
\* video, no session of that video is in WORKSPACE_SESSIONS and the video
\* file downloaded for it does not exist in TEMP_DIR, then or at any later
\* time, also when a run_process_and_notify job of the session is in flight
C19_ClosedSessionLeavesNoFile ==
    \A m \in closed :
        /\ m \notin temp_files
        /\ \A a \in DOMAIN WORKSPACE_SESSIONS : WORKSPACE_SESSIONS[a].msg_id # m


\* a step in which a workspace session for a new video appears for admin a
SessionCreated(a) ==
    /\ a \in DOMAIN WORKSPACE_SESSIONS'
    /\ \/ a \notin DOMAIN WORKSPACE_SESSIONS
       \/ WORKSPACE_SESSIONS'[a].msg_id # WORKSPACE_SESSIONS[a].msg_id

\* what C20 says of one step, for admin a
VideoOnlyAfterProcess(a) ==
    /\ SessionCreated(a) =>
          /\ CONVERSATION_STATE[a] = "awaiting_process_video"
          /\ \E v \in BOOLEAN : workspace_video_handler(a, v)
    /\ (\E v \in BOOLEAN : workspace_video_handler(a, v)) =>
          IF CONVERSATION_STATE[a] = "awaiting_process_video"
          THEN CONVERSATION_STATE'[a] = "none"
          ELSE UNCHANGED <<CONVERSATION_STATE, WORKSPACE_SESSIONS>>
    /\ (/\ CONVERSATION_STATE'[a] = "awaiting_process_video"
        /\ CONVERSATION_STATE[a] # "awaiting_process_video") =>
          process_command_handler(a)

\* C20: a workspace session is created only by workspace_video_handler and
\* only when the admin's conversation state is 'awaiting_process_video';
\* the handler clears that state whenever it finds it, whether it takes the
\* message or rejects it, and otherwise changes nothing; the state is set
\* only by /process, so each /process admits at most one video, and the
\* admin has at most the one session of the last video taken
C20_VideoOnlyAfterProcess ==
    [][\A a \in DOMAIN CONVERSATION_STATE : VideoOnlyAfterProcess(a)]_vars

\* the second video of the admin was taken into the workspace after a second
\* /process and the state is cleared again
C20_Witness ==
    /\ Operator \in DOMAIN WORKSPACE_SESSIONS
    /\ WORKSPACE_SESSIONS[Operator].msg_id = 2
    /\ nvideo = 2
    /\ CONVERSATION_STATE[Operator] = "none"


\* C21: every result message, whether written by a new search or by a page
\* switch, shows a list that search_files returned at most CACHE_TIME
\* (3600 seconds) before the message was written
C21_CacheExpires ==
    \A i \in DOMAIN rmsgs : rmsgs[i].at - rmsgs[i].stored <= CACHE_TIME


\* no two entries of the list have the same file name
OneFilePerName(results) ==
    \A i, j \in DOMAIN results :
        i # j => results[i].file_name # results[j].file_name

\* the result message a step has added
Handed == rmsgs'[Len(rmsgs')].results

\* what C22 says of one step: the list a path hands over is what the other
\* path's de-duplication makes of the same result of search_files
SameListOnBothPaths ==
    /\ \A i \in DOMAIN rmsgs' : OneFilePerName(rmsgs'[i].results)
    /\ OneFilePerName(SEARCH_RESULTS_CACHE'.results)
    /\ (/\ \E chat \in {"private", "group"}, o \in CallOutcomes :
              universal_search_handler(chat, o)
        /\ ~Fresh(SEARCH_RESULTS_CACHE, now)
        /\ Len(rmsgs') > Len(rmsgs)) =>
          Handed = start_unique_results(search_files(ranked, SEARCH_LIMIT))
    /\ (/\ \E o \in CallOutcomes : start_search(o)
        /\ Len(rmsgs') > Len(rmsgs)) =>
          Handed = unique_results(search_files(ranked, START_LIMIT))

\* C22: no list handed to send_search_results, and no cached list, has two
\* entries with the same file name; for the result list that search_files
\* returned, the list universal_search_handler hands over is the one
\* start_command's de-duplication gives, and the list start_command hands
\* over is the one universal_search_handler's de-duplication gives
C22_OneFilePerName == [][SameListOnBothPaths]_vars

\* both paths have sent results of an index in which a file name occurs
\* twice among the documents found, and the second occurrence was dropped
C22_Witness ==
    /\ Len(rmsgs) = 2
    /\ SEARCH_RESULTS_CACHE # NoEntry
    /\ rmsgs[1].results = SEARCH_RESULTS_CACHE.results
    /\ rmsgs[2].results = start_unique_results(search_files(ranked, START_LIMIT))
    /\ Len(rmsgs[2].results) < Len(search_files(ranked, START_LIMIT))
    /\ Len(rmsgs[1].results) < Len(search_files(ranked, SEARCH_LIMIT))


\* Bot.start has logged 'Disabling Force Subscribe' and set
\* config.FORCE_SUB_CHANNEL to 0
ForceSubDisabled == boot.started /\ boot.config = 0 /\ FORCE_SUB_CHANNEL # 0

\* C23: once Bot.start has taken the error path of the force-subscribe
\* block, no start_command ends in force_sub_handler: the subscription check
\* turns no user away
C23_DisabledAfterStartupError ==
    ForceSubDisabled => \A u \in Users : start[u].last # "join_prompt"

====
